---- MODULE Spec2Model ----
(***************************************************************************)
(* The fingerprinting engine of BlackShannon                               *)
(* (src/blackshannon/src/tools/fingerprint.py) and the HTTP collaborator   *)
(* it is handed (src/blackshannon/src/tools/http_client.py).               *)
(*                                                                         *)
(* A Python str is a Text: a sequence of atoms.  An atom is a chunk of     *)
(* characters; the alphabet is cut so that every token and every regex     *)
(* literal of the signature tables is a whole number of atoms, and a       *)
(* literal that occurs inside another one ("mysql" in "mysql_fetch",       *)
(* "Error" in "MongoError", "shopify" in "cdn.shopify.com") is an atom of  *)
(* its own there.  Substring search is then search for a contiguous run    *)
(* of atoms, str.lower() is Lower atom by atom, and a regular expression   *)
(* is a sequence of elements matched against the atoms.                    *)
(***************************************************************************)
EXTENDS Integers, Sequences, FiniteSets, TLC

\* ------------------------------------------------------------------ text

NL == "\n"

\* str.lower() on one atom: the atoms of the model that hold an upper-case letter.
Lower(a) ==
  CASE a = "<meta name=\"Generator\" content=\"" -> "<meta name=\"generator\" content=\""
    [] a = "WordPress" -> "wordpress"
    [] a = "Joomla" -> "joomla"
    [] a = "Drupal" -> "drupal"
    [] a = "Mage" -> "mage"
    [] a = "Cookies" -> "cookies"
    [] a = "Shopify" -> "shopify"
    [] a = "Laravel" -> "laravel"
    [] a = "Werkzeug" -> "werkzeug"
    [] a = "Whitelabel " -> "whitelabel "
    [] a = "Error" -> "error"
    [] a = "ERROR" -> "error"
    [] a = " Page" -> " page"
    [] a = "__VIEWSTATE" -> "__viewstate"
    [] a = "__EVENTVALIDATION" -> "__eventvalidation"
    [] a = "Vue" -> "vue"
    [] a = "SQL syntax" -> "sql syntax"
    [] a = "MySQL" -> "mysql"
    [] a = "Warning" -> "warning"
    [] a = "Syntax" -> "syntax"
    [] a = "Exception" -> "exception"
    [] a = "PostgreSQL" -> "postgresql"
    [] a = "Npgsql" -> "npgsql"
    [] a = "PG::Syntax" -> "pg::syntax"
    [] a = "PSQLException" -> "psqlexception"
    [] a = "Driver" -> "driver"
    [] a = "SQL Server" -> "sql server"
    [] a = "OLE DB" -> "ole db"
    [] a = "Microsoft SQL Native Client " -> "microsoft sql native client "
    [] a = "ODBC" -> "odbc"
    [] a = "SQLServer JDBC " -> "sqlserver jdbc "
    [] a = "ORA-" -> "ora-"
    [] a = "Oracle" -> "oracle"
    [] a = "/JDBC" -> "/jdbc"
    [] a = "SQLite" -> "sqlite"
    [] a = "System" -> "system"
    [] a = "Data" -> "data"
    [] a = "Operational" -> "operational"
    [] a = "Mongo" -> "mongo"
    [] a = "Type" -> "type"
    [] a = "Access Denied" -> "access denied"
    [] a = "AWS" -> "aws"
    [] a = "Mod_Security" -> "mod_security"
    [] a = "ModSecurity" -> "modsecurity"
    [] a = "NOYB" -> "noyb"
    [] a = "Apache/" -> "apache/"
    [] a = "NGINX/" -> "nginx/"
    [] a = "Microsoft-IIS/" -> "microsoft-iis/"
    [] a = "Apache-Coyote/" -> "apache-coyote/"
    [] a = "PHP/" -> "php/"
    [] a = "CF-RAY" -> "cf-ray"
    [] a = "X-Akamai-" -> "x-akamai-"
    [] a = "AkamaiGHost" -> "akamaighost"
    [] a = "X-Amzn-" -> "x-amzn-"
    [] a = "X-AMZ-" -> "x-amz-"
    [] a = "X-Amz-" -> "x-amz-"
    [] a = "X-WA-Info" -> "x-wa-info"
    [] a = "X-Iinfo" -> "x-iinfo"
    [] a = "X-Drupal-Cache" -> "x-drupal-cache"
    [] a = "X-Generator" -> "x-generator"
    [] a = "X-Generator: Drupal" -> "x-generator: drupal"
    [] a = "X-ShopId" -> "x-shopid"
    [] a = "X-Laravel" -> "x-laravel"
    [] a = "Server: Werkzeug" -> "server: werkzeug"
    [] a = "X-Powered-By: Express" -> "x-powered-by: express"
    [] a = "X-AspNet" -> "x-aspnet"
    [] a = "Mvc" -> "mvc"
    [] a = "-Version" -> "-version"
    [] a = "Server" -> "server"
    [] a = "Set-Cookie" -> "set-cookie"
    [] a = "X-Powered-By" -> "x-powered-by"
    [] a = "Transformed" -> "transformed"
    [] a = "RequestId" -> "requestid"
    [] a = "Cf-Id" -> "cf-id"
    [] OTHER -> a

LowerText(t) == [i \in 1..Len(t) |-> Lower(t[i])]

\* s occurs in t from position i on.
IsSubAt(t, s, i) ==
  /\ i + Len(s) - 1 <= Len(t)
  /\ \A k \in 1..Len(s) : t[i + k - 1] = s[k]

\* Python's  s in t  on str.
Contains(t, s) == \E i \in 1..(Len(t) + 1) : IsSubAt(t, s, i)

\* Python's  s.lower() in t.lower().
ContainsLower(t, s) == Contains(LowerText(t), LowerText(s))

\* The atoms that are one character long, and those among them that \W, \s match.
CharAtoms == {".", " ", ":", "-", "_", "!", ";", "/", "'"}
NonWordChars == {".", " ", ":", "-", "!", ";", "/", "'", NL}
SpaceChars == {" ", NL}
\* The atoms made of digits and dots only: what [\d.]+ matches whole.
VersionAtoms == {".", "9", "5.8", "3.9", "1.18.0", "2.4.41", "10.0", "1.1", "1.4.59", "7.4.3", "4.0.30319"}
\* The atoms made of four digits, and the atoms made of word characters only.
Digit4Atoms == {"0093", "1722"}
WordAtoms == {"users", "collection", "x"}
\* The atoms whose last character is not a word character (for \b).
NonWordEndAtoms == NonWordChars \cup {"Whitelabel ", "Microsoft SQL Native Client ",
  "SQLServer JDBC ", "valid ", "check the manual that corresponds to your ", "ORA-", "$("}

\* ----------------------------------------------------------------- regex
\* One element of a regular expression.
L(a) == [k |-> "lit", a |-> a]
ANY == [k |-> "any", a |-> ""]
DOT == [k |-> "dot", a |-> ""]
WS == [k |-> "ws", a |-> ""]
OPT(a) == [k |-> "opt", a |-> a]
VER == [k |-> "ver", a |-> ""]
OPTVER == [k |-> "optver", a |-> ""]
NONWORD == [k |-> "nonword", a |-> ""]
START_OR_NONWORD == [k |-> "startnw", a |-> ""]
WORDB == [k |-> "wordb", a |-> ""]
DIGIT4 == [k |-> "digit4", a |-> ""]
WORDS == [k |-> "words", a |-> ""]

\* Where a run of atoms of S that starts at atom j of t can stop.
Runs(t, j, S) == {m \in j..(Len(t) + 1) : \A x \in j..(m - 1) : t[x] \in S}
\* The same for a run of atoms other than the newline: what .* takes.
LineRuns(t, j) == {m \in j..(Len(t) + 1) : \A x \in j..(m - 1) : t[x] # NL}
\* The ends of the rest of a match whose group took atoms j..m-1 of t.
Took(t, j, m, ends) == {[e |-> r.e, c |-> SubSeq(t, j, m - 1)] : r \in ends}
\* Atom j of t is the literal a, letter case apart.
LitAt(t, j, a) == j <= Len(t) /\ Lower(t[j]) = Lower(a)
\* Atom j of t is one character of S.
CharAt(t, j, S) == j <= Len(t) /\ t[j] \in S

\* Where elements k.. of re can end when they start at atom j of t, each end with
\* the text its capture group took (<<>> when the group took nothing).
RECURSIVE Ends(_, _, _, _)
Ends(re, k, t, j) ==
  IF k > Len(re) THEN {[e |-> j, c |-> <<>>]}
  ELSE
    CASE re[k].k = "lit" ->
           IF LitAt(t, j, re[k].a) THEN Ends(re, k + 1, t, j + 1) ELSE {}
      [] re[k].k = "any" ->
           UNION {Ends(re, k + 1, t, m) : m \in LineRuns(t, j)}
      [] re[k].k = "dot" ->
           IF CharAt(t, j, CharAtoms) THEN Ends(re, k + 1, t, j + 1) ELSE {}
      [] re[k].k = "ws" ->
           UNION {Ends(re, k + 1, t, m) : m \in Runs(t, j, SpaceChars)}
      [] re[k].k = "opt" ->
           Ends(re, k + 1, t, IF LitAt(t, j, re[k].a) THEN j + 1 ELSE j)
             \cup Ends(re, k + 1, t, j)
      [] re[k].k = "ver" ->
           UNION {Took(t, j, m, Ends(re, k + 1, t, m)) : m \in Runs(t, j, VersionAtoms) \ {j}}
      [] re[k].k = "optver" ->
           Ends(re, k + 1, t, j)
             \cup UNION {Took(t, j, m, Ends(re, k + 1, t, m)) :
                           m \in Runs(t, j, VersionAtoms) \ {j}}
      [] re[k].k = "nonword" ->
           IF CharAt(t, j, NonWordChars) THEN Ends(re, k + 1, t, j + 1) ELSE {}
      [] re[k].k = "startnw" ->
           (IF CharAt(t, j, NonWordChars)
            THEN Took(t, j, j + 1, Ends(re, k + 1, t, j + 1)) ELSE {})
             \cup (IF j = 1 THEN Ends(re, k + 1, t, j) ELSE {})
      [] re[k].k = "wordb" ->
           IF j = 1 \/ (j - 1 <= Len(t) /\ t[j - 1] \in NonWordEndAtoms)
           THEN Ends(re, k + 1, t, j) ELSE {}
      [] re[k].k = "digit4" ->
           IF CharAt(t, j, Digit4Atoms) THEN Ends(re, k + 1, t, j + 1) ELSE {}
      [] re[k].k = "words" ->
           UNION {Ends(re, k + 1, t, m) : m \in Runs(t, j, WordAtoms) \ {j}}
      [] OTHER -> {}

MinOf(S) == CHOOSE x \in S : \A y \in S : x <= y
MaxOf(S) == CHOOSE x \in S : \A y \in S : x >= y

NoMatch == [found |-> FALSE, text |-> <<>>, cap |-> <<>>]

\* The atoms of t at which re matches.
Starts(re, t) == {i \in 1..(Len(t) + 1) : Ends(re, 1, t, i) # {}}
\* Of the ends rs of the matches at one atom, the one of the longest match:
\* those that stop at emax, the group having taken the most there.
Longest(rs, emax) ==
  CHOOSE r \in rs : r.e = emax /\ \A q \in rs : q.e = emax => Len(q.c) <= Len(r.c)
Greedy(rs) == Longest(rs, MaxOf({r.e : r \in rs}))
\* The match object: text is what the match took and cap what its group took.
MatchOf(t, i, r) == [found |-> TRUE, text |-> SubSeq(t, i, r.e - 1), cap |-> r.c]
MatchAt(re, t, i) == MatchOf(t, i, Greedy(Ends(re, 1, t, i)))
SearchFrom(re, t, starts) == IF starts = {} THEN NoMatch ELSE MatchAt(re, t, MinOf(starts))

\* re.search(re, t, re.IGNORECASE): the leftmost match, the longest one there.
Search(re, t) == SearchFrom(re, t, Starts(re, t))

\* re.findall(p, t, re.IGNORECASE)[0]: the group of the first match when the
\* pattern has one group, else the text of the first match.
GroupOrText(p, m) == IF p.groups = 1 THEN m.cap ELSE m.text
FindallFirst(p, t) == GroupOrText(p, Search(p.re, t))

\* re.search(r'([\d.]+)', s).group(1): the first run of digits and dots of s,
\* <<>> when s has none.
VersionStarts(s) == {i \in 1..Len(s) : s[i] \in VersionAtoms}
VersionRunFrom(s, i) ==
  SubSeq(s, i, MaxOf({m \in i..Len(s) : \A x \in i..m : s[x] \in VersionAtoms}))
FirstRunIn(s, at) == IF at = {} THEN <<>> ELSE VersionRunFrom(s, MinOf(at))
FirstVersionRun(s) == FirstRunIn(s, VersionStarts(s))

\* A pattern: its source text, its elements, the number of its groups.
P(src, re) == [src |-> src, re |-> re, groups |-> 0]
PG(src, re) == [src |-> src, re |-> re, groups |-> 1]

\* ------------------------------------------------------------- registry
\* Each table keeps the declaration order of the dict it models: Python dicts
\* iterate in insertion order.

META == "<meta name=\"generator\" content=\""

cms_patterns == <<
  [name |-> "wordpress",
   patterns |-> <<
     P("wp-content", <<L("wp-content")>>),
     P("wp-includes", <<L("wp-includes")>>),
     P("wp-admin", <<L("wp-admin")>>),
     PG("<meta name=\"generator\" content=\"WordPress\\s*([\\d.]+)?",
        <<L(META), L("WordPress"), WS, OPTVER>>) >>,
   paths |-> << <<"/wp-login.php">>, <<"/wp-admin/">> >>,
   headers |-> << >>,
   cookies |-> << <<"wordpress_">> >>],
  [name |-> "joomla",
   patterns |-> <<
     P("/components/com_", <<L("/components/com_")>>),
     P("/media/jui/", <<L("/media/jui/")>>),
     PG("<meta name=\"generator\" content=\"Joomla!?\\s*([\\d.]+)?",
        <<L(META), L("Joomla"), OPT("!"), WS, OPTVER>>) >>,
   paths |-> << <<"/administrator/">> >>,
   headers |-> << >>,
   cookies |-> << >>],
  [name |-> "drupal",
   patterns |-> <<
     P("Drupal", <<L("Drupal")>>),
     P("/sites/default/", <<L("/sites/default/")>>),
     P("/sites/all/", <<L("/sites/all/")>>),
     PG("<meta name=\"Generator\" content=\"Drupal\\s*([\\d.]+)?",
        <<L("<meta name=\"Generator\" content=\""), L("Drupal"), WS, OPTVER>>) >>,
   paths |-> << <<"/user/login">> >>,
   headers |-> << <<"X-Drupal-Cache">>, <<"X-Generator: Drupal">> >>,
   cookies |-> << <<"SESS">> >>],
  [name |-> "magento",
   patterns |-> <<
     P("/skin/frontend/", <<L("/skin/frontend/")>>),
     P("Mage.Cookies", <<L("Mage"), DOT, L("Cookies")>>),
     P("varien/js", <<L("varien/js")>>) >>,
   paths |-> << <<"/admin">> >>,
   headers |-> << >>,
   cookies |-> << <<"frontend">> >>],
  [name |-> "shopify",
   patterns |-> <<
     P("cdn.shopify.com", <<L("cdn"), DOT, L("shopify"), DOT, L("com")>>),
     P("shopify", <<L("shopify")>>),
     P("Shopify.theme", <<L("Shopify"), DOT, L("theme")>>) >>,
   paths |-> << >>,
   headers |-> << <<"X-ShopId">> >>,
   cookies |-> << <<"_shopify">> >>] >>

framework_patterns == <<
  [name |-> "laravel",
   patterns |-> << P("laravel", <<L("laravel")>>), P("Laravel", <<L("Laravel")>>) >>,
   cookies |-> << <<"laravel_", "session">>, <<"XSRF-TOKEN">> >>,
   headers |-> << <<"X-Laravel">> >>],
  [name |-> "django",
   patterns |-> << P("csrfmiddlewaretoken", <<L("csrfmiddlewaretoken")>>),
                   P("__admin", <<L("__admin")>>) >>,
   cookies |-> << <<"csrftoken">>, <<"session", "id">> >>,
   headers |-> << >>],
  [name |-> "flask",
   patterns |-> << P("Werkzeug", <<L("Werkzeug")>>) >>,
   cookies |-> << <<"session">> >>,
   headers |-> << <<"Server: Werkzeug">> >>],
  [name |-> "express",
   patterns |-> << >>,
   cookies |-> << <<"connect.sid">> >>,
   headers |-> << <<"X-Powered-By: Express">> >>],
  [name |-> "spring",
   patterns |-> << P("Whitelabel Error Page", <<L("Whitelabel "), L("Error"), L(" Page")>>) >>,
   cookies |-> << <<"J", "SESS", "IONID">> >>,
   headers |-> << >>],
  [name |-> "aspnet",
   patterns |-> << P("__VIEWSTATE", <<L("__VIEWSTATE")>>),
                   P("__EVENTVALIDATION", <<L("__EVENTVALIDATION")>>) >>,
   cookies |-> << <<"ASP.NET_SessionId">> >>,
   headers |-> << <<"X-AspNet", "-Version">>, <<"X-AspNet", "Mvc", "-Version">> >>] >>

frontend_patterns == <<
  [name |-> "react",
   patterns |-> << P("react", <<L("react")>>), P("_react", <<L("_"), L("react")>>),
                   P("data-reactroot", <<L("data-"), L("react"), L("root")>>) >>],
  [name |-> "vue",
   patterns |-> << P("vue\\.js", <<L("vue"), L("."), L("js")>>),
                   P("data-v-", <<L("data-"), L("v-")>>),
                   P("Vue\\.", <<L("Vue"), L(".")>>) >>],
  [name |-> "angular",
   patterns |-> << P("ng-app", <<L("ng-app")>>), P("ng-controller", <<L("ng-controller")>>),
                   P("angular", <<L("angular")>>) >>],
  [name |-> "jquery",
   patterns |-> << P("jquery", <<L("jquery")>>), P("\\$\\(", <<L("$(")>>) >>],
  [name |-> "bootstrap",
   patterns |-> << P("bootstrap", <<L("bootstrap")>>), P("btn-primary", <<L("btn-primary")>>) >>],
  [name |-> "tailwind",
   patterns |-> << P("tailwind", <<L("tailwind")>>) >>] >>

db_patterns == <<
  [name |-> "mysql",
   patterns |-> <<
     P("SQL syntax.*MySQL", <<L("SQL syntax"), ANY, L("MySQL")>>),
     P("Warning.*mysql_", <<L("Warning"), ANY, L("mysql"), L("_")>>),
     P("MySQLSyntaxErrorException", <<L("MySQL"), L("Syntax"), L("Error"), L("Exception")>>),
     P("valid MySQL result", <<L("valid "), L("MySQL"), L(" result")>>),
     P("check the manual that corresponds to your MySQL",
       <<L("check the manual that corresponds to your "), L("MySQL")>>),
     P("mysql_fetch", <<L("mysql"), L("_"), L("fetch")>>),
     P("mysql_num_rows", <<L("mysql"), L("_"), L("num_rows")>>) >>],
  [name |-> "postgresql",
   patterns |-> <<
     P("PostgreSQL.*ERROR", <<L("PostgreSQL"), ANY, L("ERROR")>>),
     P("Warning.*\\Wpg_", <<L("Warning"), ANY, NONWORD, L("pg_")>>),
     P("valid PostgreSQL result", <<L("valid "), L("PostgreSQL"), L(" result")>>),
     P("Npgsql\\.", <<L("Npgsql"), L(".")>>),
     P("PG::SyntaxError", <<L("PG::Syntax"), L("Error")>>),
     P("org.postgresql.util.PSQLException",
       <<L("org"), DOT, L("postgresql"), DOT, L("util"), DOT, L("PSQLException")>>) >>],
  [name |-> "mssql",
   patterns |-> <<
     P("Driver.*SQL Server", <<L("Driver"), ANY, L("SQL Server")>>),
     P("OLE DB.*SQL Server", <<L("OLE DB"), ANY, L("SQL Server")>>),
     PG("(\\W|\\A)SQL Server.*Driver", <<START_OR_NONWORD, L("SQL Server"), ANY, L("Driver")>>),
     P("Warning.*mssql_", <<L("Warning"), ANY, L("mssql_")>>),
     P("Microsoft SQL Native Client error", <<L("Microsoft SQL Native Client "), L("error")>>),
     P("ODBC SQL Server Driver", <<L("ODBC"), L(" "), L("SQL Server"), L(" "), L("Driver")>>),
     P("SQLServer JDBC Driver", <<L("SQLServer JDBC "), L("Driver")>>) >>],
  [name |-> "oracle",
   patterns |-> <<
     P("\\bORA-[0-9][0-9][0-9][0-9]", <<WORDB, L("ORA-"), DIGIT4>>),
     P("Oracle error", <<L("Oracle"), L(" "), L("error")>>),
     P("Oracle.*Driver", <<L("Oracle"), ANY, L("Driver")>>),
     P("Warning.*\\Woci_", <<L("Warning"), ANY, NONWORD, L("oci_")>>),
     P("quoted string not properly terminated", <<L("quoted string not properly terminated")>>) >>],
  [name |-> "sqlite",
   patterns |-> <<
     P("SQLite/JDBCDriver", <<L("SQLite"), L("/JDBC"), L("Driver")>>),
     P("SQLite.Exception", <<L("SQLite"), DOT, L("Exception")>>),
     P("System.Data.SQLite.SQLiteException",
       <<L("System"), DOT, L("Data"), DOT, L("SQLite"), DOT, L("SQLite"), L("Exception")>>),
     P("Warning.*sqlite_", <<L("Warning"), ANY, L("sqlite"), L("_")>>),
     P("sqlite3.OperationalError",
       <<L("sqlite"), L("3"), DOT, L("Operational"), L("Error")>>) >>],
  [name |-> "mongodb",
   patterns |-> <<
     P("MongoError", <<L("Mongo"), L("Error")>>),
     P("mongodb://", <<L("mongodb://")>>),
     P("TypeError: db\\.\\w+ is not a function",
       <<L("Type"), L("Error"), L(": db"), L("."), WORDS, L(" is not a function")>>) >>] >>

waf_patterns == <<
  [name |-> "cloudflare",
   headers |-> << <<"CF-RAY">>, <<"cf-cache-status">>, <<"__cfduid">> >>,
   cookies |-> << <<"__cfduid">>, <<"__cflb">> >>,
   patterns |-> << P("cloudflare", <<L("cloudflare")>>), P("cf-ray", <<L("cf-ray")>>) >>],
  [name |-> "akamai",
   headers |-> << <<"X-Akamai-">>, <<"AkamaiGHost">> >>,
   cookies |-> << <<"ak_bmsc">> >>,
   patterns |-> << >>],
  [name |-> "aws_waf",
   headers |-> << <<"X-Amzn-">>, <<"X-AMZ-">> >>,
   cookies |-> << >>,
   patterns |-> << P("Access Denied.*AWS", <<L("Access Denied"), ANY, L("AWS")>>) >>],
  [name |-> "modsecurity",
   headers |-> << >>,
   cookies |-> << >>,
   patterns |-> << P("Mod_Security", <<L("Mod_Security")>>),
                   P("ModSecurity", <<L("ModSecurity")>>), P("NOYB", <<L("NOYB")>>) >>],
  [name |-> "f5",
   headers |-> << <<"X-WA-Info">> >>,
   cookies |-> << <<"TS">>, <<"F5">> >>,
   patterns |-> << >>],
  [name |-> "imperva",
   headers |-> << <<"X-Iinfo">> >>,
   cookies |-> << <<"incap_ses">>, <<"visid_incap">> >>,
   patterns |-> << >>] >>

server_patterns == <<
  [name |-> "nginx", pattern |-> PG("nginx/([\\d.]+)", <<L("nginx/"), VER>>)],
  [name |-> "apache", pattern |-> PG("Apache/([\\d.]+)", <<L("Apache/"), VER>>)],
  [name |-> "iis", pattern |-> PG("Microsoft-IIS/([\\d.]+)", <<L("Microsoft-IIS/"), VER>>)],
  [name |-> "tomcat", pattern |-> PG("Apache-Coyote/([\\d.]+)", <<L("Apache-Coyote/"), VER>>)],
  [name |-> "lighttpd", pattern |-> PG("lighttpd/([\\d.]+)", <<L("lighttpd/"), VER>>)] >>

\* The names of a table, in declaration order (dict.keys()).
Names(table) == [i \in 1..Len(table) |-> table[i].name]

\* ------------------------------------------------------- Python values
\* None, for the fields that hold a str or None: a text no str equals.
None == <<"<None>">>
\* The truth value of a str-or-None: None and "" are false.
Truthy(x) == x # None /\ x # << >>
\* A name of a table as a str.
Str(s) == <<s>>

\* A dict is a function; d[k] = v on it.
EmptyDict == << >>
Put(d, k, v) == [x \in (DOMAIN d) \cup {k} |-> IF x = k THEN v ELSE d[x]]

Map(seq, F(_)) == [i \in 1..Len(seq) |-> F(seq[i])]

RECURSIVE Flatten(_)
Flatten(seqs) == IF seqs = << >> THEN << >> ELSE Head(seqs) \o Flatten(Tail(seqs))

RECURSIVE Join(_, _)
\* sep.join(parts)
Join(parts, sep) ==
  IF parts = << >> THEN << >>
  ELSE IF Len(parts) = 1 THEN parts[1]
  ELSE parts[1] \o sep \o Join(Tail(parts), sep)

\* max(scores, key=scores.get): the first key, in the dict's order, whose value is
\* the largest.  scores[i] is the value of the i-th key.
\* Variant: the last of the highest entries.
ArgMaxLast(scores) ==
  MaxOf({i \in 1..Len(scores) : \A j \in 1..Len(scores) : scores[j] <= scores[i]})

ArgMaxFirst(scores) ==
  MinOf({i \in 1..Len(scores) : \A j \in 1..Len(scores) : scores[j] <= scores[i]})

\* max(scores.values())
MaxScore(scores) == MaxOf({scores[i] : i \in 1..Len(scores)})

SET_COOKIE == <<"Set-Cookie">>

\* Variant: a header token counts only while the response has a single header.
HeaderHitAlone(headers, token) ==
  /\ Cardinality(DOMAIN headers) = 1
  /\ \E h \in DOMAIN headers : ContainsLower(h, token)

\* any(token.lower() in h.lower() for h in headers.keys())
HeaderHit(headers, token) == \E h \in DOMAIN headers : ContainsLower(h, token)

\* headers.get("Set-Cookie", "")
CookieStr(headers) == IF SET_COOKIE \in DOMAIN headers THEN headers[SET_COOKIE] ELSE << >>

\* Variant: the token has to be the whole Set-Cookie value.
CookieHitWhole(headers, token) == CookieStr(headers) = token

\* cookie in cookie_str
CookieHit(headers, token) == Contains(CookieStr(headers), token)

\* re.search / re.findall of the pattern finds something in the body.
PatternHit(html, p) == Search(p.re, html).found

\* The entries of seq that pass Test, in order.
Hits(seq, Test(_)) == SelectSeq(seq, Test)

\* ------------------------------------------------------ header analysis
SERVER == <<"Server">>
X_POWERED_BY == <<"X-Powered-By">>
X_ASPNET_VERSION == <<"X-AspNet", "-Version">>
PHPSESSID == <<"PHP", "SESS", "ID">>
ASPNET_SESSIONID == <<"ASP.NET_SessionId">>
LARAVEL_SESSION == <<"laravel_", "session">>
CONNECT_SID == <<"connect.sid">>

\* Variant: the last server pattern, in declaration order, found in the Server
\* header.
ServerInfoLast(headers) ==
  LET unknown == [name |-> Str("Unknown"), version |-> None]
  IN IF SERVER \notin DOMAIN headers THEN unknown
     ELSE LET server_str == headers[SERVER]
              found == {i \in 1..Len(server_patterns) :
                          Search(server_patterns[i].pattern.re, server_str).found}
          IN IF found = {} THEN unknown
             ELSE LET i == MaxOf(found)
                      match == Search(server_patterns[i].pattern.re, server_str)
                  IN [name |-> Str(server_patterns[i].name), version |-> match.cap]

\* Lines 319-329: the first server pattern, in declaration order, found in the
\* Server header.
ServerInfo(headers) ==
  LET unknown == [name |-> Str("Unknown"), version |-> None]
  IN IF SERVER \notin DOMAIN headers THEN unknown
     ELSE LET server_str == headers[SERVER]
              found == {i \in 1..Len(server_patterns) :
                          Search(server_patterns[i].pattern.re, server_str).found}
          IN IF found = {} THEN unknown
             ELSE LET i == MinOf(found)
                      match == Search(server_patterns[i].pattern.re, server_str)
                  IN [name |-> Str(server_patterns[i].name),
                      version |-> IF server_patterns[i].pattern.groups > 0
                                  THEN match.cap ELSE None]

\* Lines 331-387: the backend language, each rule overriding the ones before it
\* except the cookie rules, which only fill a language that is still unset.
BackendInfo(headers) ==
  LET hasPB == X_POWERED_BY \in DOMAIN headers
      powered_by == headers[X_POWERED_BY]
      b0 == [language |-> None, version |-> None]
      php_match == Search(<<L("PHP/"), VER>>, powered_by)
      b1 == IF hasPB /\ php_match.found
            THEN [language |-> Str("PHP"), version |-> php_match.cap] ELSE b0
      b2 == IF hasPB /\ Contains(powered_by, <<"ASP.NET">>)
            THEN [b1 EXCEPT !.language = Str("ASP.NET")] ELSE b1
      b3 == IF X_ASPNET_VERSION \in DOMAIN headers
            THEN [language |-> Str("ASP.NET"), version |-> headers[X_ASPNET_VERSION]] ELSE b2
      b4 == IF hasPB /\ Contains(powered_by, <<"Express">>)
            THEN [language |-> Str("Node.js"), version |-> b3.version,
                  framework |-> Str("Express")]
            ELSE b3
      hasC == SET_COOKIE \in DOMAIN headers
      cookie_str == headers[SET_COOKIE]
      fill(b, cond, lang) ==
        IF hasC /\ cond /\ ~Truthy(b.language) THEN [b EXCEPT !.language = Str(lang)] ELSE b
      b5 == fill(b4, Contains(cookie_str, PHPSESSID), "PHP")
      b6 == fill(b5, Contains(cookie_str, ASPNET_SESSIONID), "ASP.NET")
      b7 == fill(b6, Contains(cookie_str, CONNECT_SID), "Node.js")
      b8 == fill(b7, Contains(cookie_str, <<"csrftoken">>)
                       \/ Contains(cookie_str, <<"session", "id">>), "Python")
  IN b8

\* Lines 357-387: the session cookies seen in Set-Cookie.
CookieFlags(headers) ==
  IF SET_COOKIE \notin DOMAIN headers THEN EmptyDict
  ELSE LET cookie_str == headers[SET_COOKIE]
           flag(d, cond, key) == IF cond THEN Put(d, key, TRUE) ELSE d
           c1 == flag(EmptyDict, Contains(cookie_str, PHPSESSID), PHPSESSID)
           c2 == flag(c1, Contains(cookie_str, ASPNET_SESSIONID), ASPNET_SESSIONID)
           c3 == flag(c2, Contains(cookie_str, LARAVEL_SESSION), LARAVEL_SESSION)
           c4 == flag(c3, Contains(cookie_str, CONNECT_SID), CONNECT_SID)
           c5 == flag(c4, Contains(cookie_str, <<"csrftoken">>)
                            \/ Contains(cookie_str, <<"session", "id">>), <<"django">>)
       IN c5

\* Lines 321, 334, 350, 390-392: the headers copied to the result.
FilteredHeaders(headers) ==
  LET kept == {SERVER, X_POWERED_BY, X_ASPNET_VERSION, <<"X-Framework">>, <<"X-Generator">>,
               <<"X-Drupal-Cache">>} \cap DOMAIN headers
  IN [h \in kept |-> headers[h]]

_analyze_headers(headers) ==
  [server |-> ServerInfo(headers),
   backend |-> BackendInfo(headers),
   filtered_headers |-> FilteredHeaders(headers),
   cookies |-> CookieFlags(headers)]

\* ------------------------------------------------------------------ WAF
HeaderLabel(token) == <<"Header: ">> \o token
CookieLabel(token) == <<"Cookie: ">> \o token
PatternLabel(p) == <<"Pattern: ", p.src>>

\* Variant: a cookie token weighs 1.
WafScoreLightCookie(sig, headers, html) ==
  LET headerHit(t) == HeaderHit(headers, t)
      cookieHit(t) == CookieHit(headers, t)
      patternHit(q) == PatternHit(html, q)
  IN 2 * Len(Hits(sig.headers, headerHit))
       + 1 * Len(Hits(sig.cookies, cookieHit))
       + 1 * Len(Hits(sig.patterns, patternHit))

\* Lines 405-425, the score of one candidate: 2 for each header token found in a
\* header name, 2 for each cookie token found in Set-Cookie, 1 for each body
\* pattern found.
WafScore(sig, headers, html) ==
  LET headerHit(t) == HeaderHit(headers, t)
      cookieHit(t) == CookieHit(headers, t)
      patternHit(q) == PatternHit(html, q)
  IN 2 * Len(Hits(sig.headers, headerHit))
       + 2 * Len(Hits(sig.cookies, cookieHit))
       + 1 * Len(Hits(sig.patterns, patternHit))

\* Lines 412, 419, 425: the evidence one candidate appends.
WafEvidence(sig, headers, html) ==
  LET headerHit(t) == HeaderHit(headers, t)
      cookieHit(t) == CookieHit(headers, t)
      patternHit(q) == PatternHit(html, q)
  IN Map(Hits(sig.headers, headerHit), HeaderLabel)
       \o Map(Hits(sig.cookies, cookieHit), CookieLabel)
       \o Map(Hits(sig.patterns, patternHit), PatternLabel)

\* The dict scores at line 427, in the table's order.
WafScores(headers, html) ==
  [i \in 1..Len(waf_patterns) |-> WafScore(waf_patterns[i], headers, html)]

\* Variant: a single point is no confidence at all.
WafTierNone(max_score) ==
  IF max_score >= 3 THEN "high" ELSE IF max_score >= 2 THEN "medium" ELSE "none"

\* Variant: "high" starts at 4.
WafTierStrict(max_score) ==
  IF max_score >= 4 THEN "high" ELSE IF max_score >= 2 THEN "medium" ELSE "low"

\* Line 432.
WafTier(max_score) ==
  IF max_score >= 3 THEN "high" ELSE IF max_score >= 2 THEN "medium" ELSE "low"

_detect_waf(headers, html) ==
  LET scores == WafScores(headers, html)
      max_score == MaxScore(scores)
      evidence == Flatten([i \in 1..Len(waf_patterns) |->
                             WafEvidence(waf_patterns[i], headers, html)])
  IN IF max_score > 0
     THEN [detected |-> TRUE,
           type |-> Str(waf_patterns[ArgMaxFirst(scores)].name),
           confidence |-> WafTier(max_score),
           evidence |-> evidence]
     ELSE [detected |-> FALSE, type |-> None, confidence |-> "none", evidence |-> evidence]

\* ------------------------------------------------------------------ CMS
\* pattern[:50]: the two generator patterns are longer than 50 characters.
First50(src) ==
  CASE src = "<meta name=\"generator\" content=\"WordPress\\s*([\\d.]+)?"
         -> "<meta name=\"generator\" content=\"WordPress\\s*([\\d.]"
    [] src = "<meta name=\"generator\" content=\"Joomla!?\\s*([\\d.]+)?"
         -> "<meta name=\"generator\" content=\"Joomla!?\\s*([\\d.]+"
    [] OTHER -> src

CmsPatternLabel(p) == <<"Pattern: ", First50(p.src)>>

\* Lines 445-474, the score of one candidate: 2 for each body pattern found, 1
\* for each header token found in a header name, 1 for each cookie token found
\* in Set-Cookie.  The table's paths are not read.
CmsScore(sig, headers, html) ==
  LET headerHit(t) == HeaderHit(headers, t)
      cookieHit(t) == CookieHit(headers, t)
      patternHit(q) == PatternHit(html, q)
  IN 2 * Len(Hits(sig.patterns, patternHit))
       + 1 * Len(Hits(sig.headers, headerHit))
       + 1 * Len(Hits(sig.cookies, cookieHit))

\* Lines 453, 467, 474.
CmsEvidence(sig, headers, html) ==
  LET headerHit(t) == HeaderHit(headers, t)
      cookieHit(t) == CookieHit(headers, t)
      patternHit(q) == PatternHit(html, q)
  IN Map(Hits(sig.patterns, patternHit), CmsPatternLabel)
       \o Map(Hits(sig.headers, headerHit), HeaderLabel)
       \o Map(Hits(sig.cookies, cookieHit), CookieLabel)

CmsScores(headers, html) ==
  [i \in 1..Len(cms_patterns) |-> CmsScore(cms_patterns[i], headers, html)]

\* Lines 455-461, for one pattern that matched: matches[0] is a str for the
\* patterns of the table (a tuple needs two groups), and it sets the version to
\* its first run of digits and dots when it has one.  << >>: it sets nothing.
VersionFrom(p, html) == FirstVersionRun(FindallFirst(p, html))

\* cms_info["version"] after the loop: every matched pattern of every candidate
\* that yields a version overwrites it, so the last one in table order stays.
CmsVersion(html) ==
  LET all == Flatten([i \in 1..Len(cms_patterns) |-> cms_patterns[i].patterns])
      yields(q) == PatternHit(html, q) /\ VersionFrom(q, html) # << >>
      set == Hits(all, yields)
  IN IF set = << >> THEN None ELSE VersionFrom(set[Len(set)], html)

\* Variant: one body pattern is not enough for "medium".
CmsTierStrict(max_score) == IF max_score >= 4 THEN "high" ELSE "low"

\* Line 480.
CmsTier(max_score) ==
  IF max_score >= 4 THEN "high" ELSE IF max_score >= 2 THEN "medium" ELSE "low"

_detect_cms(html, headers, base_url) ==
  LET scores == CmsScores(headers, html)
      max_score == MaxScore(scores)
      evidence == Flatten([i \in 1..Len(cms_patterns) |->
                             CmsEvidence(cms_patterns[i], headers, html)])
  IN [name |-> IF max_score > 0 THEN Str(cms_patterns[ArgMaxFirst(scores)].name) ELSE None,
      version |-> CmsVersion(html),
      confidence |-> IF max_score > 0 THEN CmsTier(max_score) ELSE "none",
      evidence |-> evidence]

\* ----------------------------------------------------------- frameworks
\* Variant: a header token weighs 2.
FrameworkScoreHeavyHeader(sig, html, headers, cookies) ==
  LET patternHit(q) == PatternHit(html, q)
      cookieHit(t) == t \in DOMAIN cookies \/ CookieHit(headers, t)
      headerHit(t) == HeaderHit(headers, t)
  IN Len(Hits(sig.patterns, patternHit))
       + Len(Hits(sig.cookies, cookieHit))
       + 2 * Len(Hits(sig.headers, headerHit))

\* Lines 493-508: 1 for each pattern, cookie and header token found.
FrameworkScore(sig, html, headers, cookies) ==
  LET patternHit(q) == PatternHit(html, q)
      cookieHit(t) == t \in DOMAIN cookies \/ CookieHit(headers, t)
      headerHit(t) == HeaderHit(headers, t)
  IN Len(Hits(sig.patterns, patternHit))
       + Len(Hits(sig.cookies, cookieHit))
       + Len(Hits(sig.headers, headerHit))

\* The value of score at line 510, for each candidate in the table's order.
FrameworkScores(html, headers, cookies) ==
  [i \in 1..Len(framework_patterns) |->
     FrameworkScore(framework_patterns[i], html, headers, cookies)]

\* Variant: a single hit is reported as "low".
FrameworkTierLow(score) == IF score >= 2 THEN "high" ELSE "low"

\* Line 513.
FrameworkTier(score) == IF score >= 2 THEN "high" ELSE "medium"

_detect_frameworks(html, headers, cookies) ==
  LET scored(sig) == FrameworkScore(sig, html, headers, cookies) > 0
      entry(sig) == [name |-> Str(sig.name),
                     confidence |-> FrameworkTier(FrameworkScore(sig, html, headers, cookies))]
      seen(sig) == \E i \in 1..Len(sig.patterns) : PatternHit(html, sig.patterns[i])
      name(sig) == Str(sig.name)
  IN [backend |-> Map(Hits(framework_patterns, scored), entry),
      frontend |-> Map(Hits(frontend_patterns, seen), name)]

\* ------------------------------------------------------------- database
\* Lines 536-540: 1 for each error pattern found in the body.
DbScore(sig, html) ==
  LET patternHit(q) == PatternHit(html, q) IN Len(Hits(sig.patterns, patternHit))

DbScores(html) == [i \in 1..Len(db_patterns) |-> DbScore(db_patterns[i], html)]

\* Lines 541-542: the first match (its group, for the one pattern with a group);
\* no text of the model is longer than the 100 characters kept.
DbEvidence(sig, html) ==
  LET patternHit(q) == PatternHit(html, q)
      label(q) == <<sig.name, ": ">> \o FindallFirst(q, html)
  IN Map(Hits(sig.patterns, patternHit), label)

\* Line 548.
DbTier(max_score) ==
  IF max_score >= 3 THEN "high" ELSE IF max_score >= 2 THEN "medium" ELSE "low"

\* Variant: the fallback leaves the initial type in place.
DbFallbackUnknown(evidence) ==
  [type |-> Str("unknown"), confidence |-> "low", evidence |-> evidence]

\* Lines 549-552: no pattern matched.
DbFallback(evidence) == [type |-> Str("inferred"), confidence |-> "low", evidence |-> evidence]

_detect_database(html, headers) ==
  LET scores == DbScores(html)
      max_score == MaxScore(scores)
      evidence == Flatten([i \in 1..Len(db_patterns) |-> DbEvidence(db_patterns[i], html)])
  IN IF max_score > 0
     THEN [type |-> Str(db_patterns[ArgMaxFirst(scores)].name),
           confidence |-> DbTier(max_score),
           evidence |-> evidence]
     ELSE DbFallback(evidence)

\* ------------------------------------------------------------ synthesis
\* name, or name + " " + version when the version is set.
WithVersion(name, version) == IF Truthy(version) THEN name \o <<" ">> \o version ELSE name

\* Variant: the whole list, whatever n.
PrefixOfAll(seq, n) == seq

PrefixOf(seq, n) == SubSeq(seq, 1, IF Len(seq) < n THEN Len(seq) ELSE n)

_build_tech_list(result) ==
  LET fwName(fw) == fw.name
  IN (IF result.server.name # Str("Unknown")
      THEN << WithVersion(result.server.name, result.server.version) >> ELSE << >>)
     \o (IF Truthy(result.backend.language)
         THEN << WithVersion(result.backend.language, result.backend.version) >> ELSE << >>)
     \o (IF Truthy(result.cms.name)
         THEN << WithVersion(result.cms.name, result.cms.version) >> ELSE << >>)
     \o Map(result.framework.backend, fwName)
     \o (IF result.database.type # Str("unknown")
         THEN << <<"Database: ">> \o result.database.type
                   \o (IF result.database.confidence = "low" THEN <<" (inferred)">> ELSE << >>) >>
         ELSE << >>)
     \o (IF result.waf.detected THEN << <<"WAF: ">> \o result.waf.type >> ELSE << >>)
     \o (IF result.framework.frontend # << >>
         THEN << <<"Frontend: ">> \o Join(PrefixOf(result.framework.frontend, 3), <<", ">>) >>
         ELSE << >>)

\* Variant: the first backend framework is named even when a CMS is.
SummaryWithFramework(result) ==
  Join((IF result.server.name # Str("Unknown") THEN << result.server.name >> ELSE << >>)
       \o (IF Truthy(result.backend.language) THEN << result.backend.language >> ELSE << >>)
       \o (IF Truthy(result.cms.name) THEN << result.cms.name >> ELSE << >>)
       \o (IF result.framework.backend # << >>
           THEN << result.framework.backend[1].name >> ELSE << >>)
       \o << <<"DB:">> \o result.database.type >>
       \o (IF result.waf.detected THEN << <<"WAF:">> \o result.waf.type >> ELSE << >>),
       <<" | ">>)

_build_summary(result) ==
  LET parts ==
        (IF result.server.name # Str("Unknown") THEN << result.server.name >> ELSE << >>)
        \o (IF Truthy(result.backend.language) THEN << result.backend.language >> ELSE << >>)
        \o (IF Truthy(result.cms.name) THEN << result.cms.name >>
            ELSE IF result.framework.backend # << >>
                 THEN << result.framework.backend[1].name >> ELSE << >>)
        \o (IF result.database.type # Str("unknown")
            THEN << <<"DB:">> \o result.database.type >> ELSE << >>)
        \o (IF result.waf.detected THEN << <<"WAF:">> \o result.waf.type >> ELSE << >>)
  IN IF parts # << >> THEN Join(parts, <<" | ">>) ELSE <<"Unknown Stack">>

\* Variant: a result that scores nothing is given the confidence "unknown".
ConfidenceOrUnknown(result) ==
  IF /\ result.server.name = Str("Unknown")
     /\ ~Truthy(result.backend.language)
     /\ ~(Truthy(result.cms.name) /\ result.cms.confidence \in {"high", "medium"})
     /\ result.database.confidence \notin {"high", "medium"}
     /\ result.framework.backend = << >>
     /\ result.framework.frontend = << >>
  THEN "unknown"
  ELSE "medium"

\* Variant: a named CMS counts whatever its confidence.
ConfidenceAnyCms(result) ==
  LET score ==
        (IF result.server.name # Str("Unknown") THEN 1 ELSE 0)
        + (IF Truthy(result.backend.language) THEN 2 ELSE 0)
        + (IF Truthy(result.cms.name) THEN 2 ELSE 0)
        + (IF result.database.confidence \in {"high", "medium"} THEN 2 ELSE 0)
        + (IF result.framework.backend # << >> \/ result.framework.frontend # << >>
           THEN 1 ELSE 0)
  IN IF score >= 6 THEN "high" ELSE IF score >= 3 THEN "medium" ELSE "low"

_calculate_confidence(result) ==
  LET score ==
        (IF result.server.name # Str("Unknown") THEN 1 ELSE 0)
        + (IF Truthy(result.backend.language) THEN 2 ELSE 0)
        + (IF Truthy(result.cms.name) /\ result.cms.confidence \in {"high", "medium"}
           THEN 2 ELSE 0)
        + (IF result.database.confidence \in {"high", "medium"} THEN 2 ELSE 0)
        + (IF result.framework.backend # << >> \/ result.framework.frontend # << >>
           THEN 1 ELSE 0)
  IN IF score >= 6 THEN "high" ELSE IF score >= 3 THEN "medium" ELSE "low"

\* ------------------------------------------------------- observed sites
\* What a target shows: its response headers (Set-Cookie among them), its body
\* and the paths that answer 200.  The bodies, headers and cookies below are the
\* evidence units the model draws its responses from.

WP_CONTENT == <<"wp-content">>
WP_GENERATOR == <<META, "WordPress", " ", "5.8">>
DRUPAL_GENERATOR == <<META, "Drupal", " ", "9">>
SHOPIFY_CDN == <<"cdn", ".", "shopify", ".", "com">>
CLOUDFLARE_PAGE == <<"cloudflare">>
MODSECURITY_PAGE == <<"ModSecurity">>
MYSQL_WARNING == <<"Warning", ":", " ", "mysql", "_", "fetch",
                   "_array(): supplied argument is not a ", "valid ", "MySQL", " result">>
PG_ERROR == <<"PG::Syntax", "Error">>
MONGO_ERROR == <<"Mongo", "Error">>
NPGSQL_ERROR == <<"Npgsql", ".", "PostgresException">>

BodyUnits == {WP_CONTENT, WP_GENERATOR, DRUPAL_GENERATOR, SHOPIFY_CDN, CLOUDFLARE_PAGE,
              MODSECURITY_PAGE, MYSQL_WARNING, PG_ERROR, MONGO_ERROR, NPGSQL_ERROR}

HeaderUnits == {
  [name |-> SERVER, value |-> <<"nginx/", "1.18.0">>],
  [name |-> X_POWERED_BY, value |-> <<"PHP/", "7.4.3">>],
  [name |-> <<"CF-RAY">>, value |-> <<"7d1a">>],
  [name |-> <<"X-Akamai-", "Transformed">>, value |-> <<"9">>],
  [name |-> <<"X-Drupal-Cache">>, value |-> <<"HIT">>] }

CookieUnits == {
  <<"__cfduid", "=d41d">>,
  <<"TS", "01", "=a1b2">>,
  <<"PHP", "SESS", "ID", "=abc">>,
  <<"wordpress_", "logged_in", "=1">>,
  <<"laravel_", "session", "=xyz">>,
  <<"ak_bmsc", "=e5f6">> }

WP_LOGIN == <<"/wp-login.php">>

\* The sites the observation starts from: one that shows nothing, and a
\* WordPress site (wp-content in the body, /wp-login.php answering 200).
BlankSite == [headers |-> EmptyDict, html |-> << >>, reachable |-> {}]
WordPressSite == [headers |-> EmptyDict, html |-> WP_CONTENT, reachable |-> {WP_LOGIN}]
\* A site behind Cloudflare: its Set-Cookie sets __cfduid.
CloudflareSite ==
  [headers |-> Put(EmptyDict, SET_COOKIE, <<"__cfduid", "=d41d">>), html |-> << >>,
   reachable |-> {}]
BaseSites == {BlankSite, WordPressSite, CloudflareSite}

\* The site with one more evidence unit: a line of body text, a header, or a
\* cookie in Set-Cookie.
AddBody(site, text) == [site EXCEPT !.html = @ \o text]
AddHeader(site, h) == [site EXCEPT !.headers = Put(@, h.name, h.value)]
AddCookie(site, c) ==
  [site EXCEPT !.headers =
     Put(@, SET_COOKIE, IF SET_COOKIE \in DOMAIN @ THEN @[SET_COOKIE] \o <<"; ">> \o c ELSE c)]

\* ------------------------------------------------------ the environment
\* The bounds of the model.
MaxUnits == 2
MaxCalls == 2
MaxRetries == 3
MaxRequests == 3

\* The status_code of a result before phase 1 sets it (None at line 225).
NoStatus == -1

\* The target URL, and what urlparse/urljoin make of it (lines 570-574).
TargetUrl == [scheme |-> "http", netloc |-> "target.example", path |-> << >>]
\* A target whose own path is one of the common paths.
AdminUrl == [scheme |-> "http", netloc |-> "target.example", path |-> <<"/admin">>]
UrlText(u) == <<u.scheme, "://", u.netloc>> \o u.path
BaseOf(u) == <<u.scheme, "://", u.netloc>>
\* Variant: the path is dropped.
UrlJoinBase(base, path) == base

UrlJoin(base, path) == base \o path

common_paths == << <<"/robots.txt">>, <<"/sitemap.xml">>, <<"/.well-known/security.txt">>,
                   <<"/admin">>, <<"/wp-admin">>, <<"/administrator">>, <<"/phpmyadmin">> >>

\* What http_client.get hands back.  NoResponse is Python's None.  A Response is
\* what a requests-style client returns (url, status_code, headers, text); an
\* HTTPResponse is the dataclass of http_client.py, whose text is in .body and
\* which carries .error, status_code 0, when every retry failed.
NoResponse == [cls |-> "NoneType"]
Response(url, status_code, headers, text) ==
  [cls |-> "Response", url |-> url, status_code |-> status_code, headers |-> headers,
   text |-> text]
HTTPResponse(url, status_code, headers, body, error) ==
  [cls |-> "HTTPResponse", url |-> url, status_code |-> status_code, headers |-> headers,
   body |-> body, response_time |-> 0, error |-> error]

\* HTTPClient.request after its last retry failed (http_client.py lines 170-177).
FailedHTTPResponse(url) == HTTPResponse(url, 0, EmptyDict, << >>, <<"Connection refused">>)

\* bool(response): None is false, every response object is true (neither class
\* defines __bool__ or __len__).
IsTruthy(response) == response.cls # "NoneType"
\* hasattr(response, "text")
HasText(response) == response.cls = "Response"

SampleSites == {
  BlankSite,
  AddCookie(AddHeader(AddBody(WordPressSite, WP_GENERATOR),
                      [name |-> SERVER, value |-> <<"nginx/", "1.18.0">>]),
            <<"PHP", "SESS", "ID", "=abc">>),
  AddHeader(AddBody(AddBody(BlankSite, DRUPAL_GENERATOR), MYSQL_WARNING),
            [name |-> <<"CF-RAY">>, value |-> <<"7d1a">>]),
  AddCookie(AddBody(BlankSite, SHOPIFY_CDN), <<"laravel_", "session", "=xyz">>) }

\* The outcome of the probe of each common path: the status of the response, or
\* "raises" when the request raises.
ProbeScenarios == {
  [i \in 1..7 |-> "404"],
  [i \in 1..7 |-> IF i \in {1, 5} THEN "200" ELSE IF i \in {3, 6} THEN "raises" ELSE "404"],
  [i \in 1..7 |-> IF i = 7 THEN "0" ELSE "200"] }

\* The statement of analyze_target's try block that raises, if one does: an
\* exception inside the call made by a phase (a header value that is not a str
\* makes re.search raise in _analyze_headers, a URL urlparse rejects raises in
\* _probe_common_paths, ...).  The loggers do not raise.
FaultSites == {"none", "phase2", "phase3", "phase4", "phase5", "phase6", "phase7",
               "tech_list", "summary", "confidence"}

ErrorText(site) == <<"error in ", site>>
NoTextError == <<"'HTTPResponse' object has no attribute 'text'">>

\* The environments of one run: what the main fetch does, the response it hands
\* back, the outcome of each probe, and the statement that raises.
Environments ==
  { [url |-> TargetUrl, fetch |-> "raises", response |-> NoResponse,
     probes |-> p, fault |-> "none"] : p \in ProbeScenarios }
  \cup
  { [url |-> TargetUrl, fetch |-> "returns", response |-> NoResponse,
     probes |-> p, fault |-> "none"] : p \in ProbeScenarios }
  \cup
  { [url |-> TargetUrl, fetch |-> "returns", response |-> r, probes |-> p, fault |-> "none"] :
      r \in {FailedHTTPResponse(UrlText(TargetUrl)),
             HTTPResponse(UrlText(TargetUrl), 200, EmptyDict, WP_CONTENT, None)},
      p \in ProbeScenarios }
  \cup
  { [url |-> TargetUrl, fetch |-> "returns",
     response |-> Response(UrlText(TargetUrl), 200, s.headers, s.html),
     probes |-> p, fault |-> f] :
      s \in SampleSites, p \in ProbeScenarios, f \in FaultSites }
  \cup
  { [url |-> AdminUrl, fetch |-> "returns",
     response |-> Response(UrlText(AdminUrl), 200, EmptyDict, << >>),
     probes |-> p, fault |-> "none"] : p \in ProbeScenarios }

\* -------------------------------------------------------------- the state
VARIABLES
  env,        \* the environment of the run
  pc,         \* where analyze_target is
  result,     \* the dict result of the call in progress
  exc,        \* the message of the exception in flight, None when there is none
  probeIdx,   \* _probe_common_paths: the next path to probe
  pathsFound, \* _probe_common_paths: paths_found
  requests,   \* the URLs requested in the call in progress, in order
  clock,      \* datetime.now()
  history,    \* what each finished call returned
  site,       \* the observed site of the detector specification
  det,        \* what the detectors make of site, once they have run
  prev,       \* what the detectors made of the site before its last evidence unit
  units,      \* the number of evidence units added to the site
  client      \* the HTTPClient: its counters and the request call in progress

pipeVars == <<env, pc, result, exc, probeIdx, pathsFound, requests, clock, history>>
detVars == <<site, det, prev, units>>
clientVars == <<client>>
vars == <<env, pc, result, exc, probeIdx, pathsFound, requests, clock, history,
          site, det, prev, units, client>>

\* ------------------------------------------------------- analyze_target
\* Variant: the errors list is one object shared by every call, so it holds
\* an entry per earlier call.
SkeletonShared(url, now) ==
  [url |-> url,
   final_url |-> url,
   status_code |-> NoStatus,
   server |-> [name |-> Str("Unknown"), version |-> None],
   backend |-> [language |-> None, version |-> None],
   cms |-> [name |-> None, version |-> None, confidence |-> "none"],
   framework |-> [backend |-> << >>, frontend |-> << >>],
   database |-> [type |-> Str("unknown"), confidence |-> "low", evidence |-> << >>],
   waf |-> [detected |-> FALSE, type |-> None, confidence |-> "none"],
   technologies |-> << >>,
   headers |-> EmptyDict,
   cookies |-> EmptyDict,
   paths_found |-> << >>,
   tech_stack_summary |-> <<"Unknown">>,
   fingerprint_confidence |-> "low",
   timestamp |-> now,
   errors |-> [i \in 1..now |-> <<"stale">>]]

\* Lines 222-240: the result a call starts from.
Skeleton(url, now) ==
  [url |-> url,
   final_url |-> url,
   status_code |-> NoStatus,
   server |-> [name |-> Str("Unknown"), version |-> None],
   backend |-> [language |-> None, version |-> None],
   cms |-> [name |-> None, version |-> None, confidence |-> "none"],
   framework |-> [backend |-> << >>, frontend |-> << >>],
   database |-> [type |-> Str("unknown"), confidence |-> "low", evidence |-> << >>],
   waf |-> [detected |-> FALSE, type |-> None, confidence |-> "none"],
   technologies |-> << >>,
   headers |-> EmptyDict,
   cookies |-> EmptyDict,
   paths_found |-> << >>,
   tech_stack_summary |-> <<"Unknown">>,
   fingerprint_confidence |-> "low",
   timestamp |-> now,
   errors |-> << >>]

\* Lines 301-307: the collaborator's answer, None when it raises.
_make_safe_request(raises, response) == IF raises THEN NoResponse ELSE response

\* Line 246:  if not response
Unreachable(response) == ~IsTruthy(response)

\* Variant: the failed fetch falls through to the path probes.
AfterFailedFetchProbes == "phase7"

\* Variant: the handler starts the result over.
OnExceptionReset(res, message) ==
  [Skeleton(res.url, res.timestamp) EXCEPT !.errors = <<message>>]

\* Line 248: return result, where the call goes after the failed fetch.
AfterFailedFetch == "return"

\* Variant: the handler records nothing.
OnExceptionSilent(res, message) == res

\* Line 297: what the handler of the try block does to the result.
OnException(res, message) == [res EXCEPT !.errors = Append(@, message)]

\* The statement named by the environment raises here.
Raises(where) == env.fault = where

Raise(message) ==
  /\ exc' = message
  /\ pc' = "except"

Goto(label) ==
  /\ pc' = label
  /\ exc' = exc

\* Lines 220-240: the call starts.
AnalyzeTarget ==
  /\ pc = "idle"
  /\ Len(history) < MaxCalls
  /\ result' = Skeleton(UrlText(env.url), clock)
  /\ clock' = clock + 1
  /\ requests' = << >>
  /\ probeIdx' = 1
  /\ pathsFound' = << >>
  /\ Goto("phase1")
  /\ UNCHANGED <<env, history>>
  /\ UNCHANGED detVars
  /\ UNCHANGED clientVars

\* Lines 243-253: the main request; an unreachable target ends the call.
Phase1 ==
  /\ pc = "phase1"
  /\ requests' = Append(requests, UrlText(env.url))
  /\ LET response == _make_safe_request(env.fetch = "raises", env.response)
     IN IF Unreachable(response)
        THEN /\ result' = [result EXCEPT !.errors = Append(@, <<"Failed to reach target">>)]
             /\ Goto(AfterFailedFetch)
        ELSE /\ result' = [result EXCEPT !.status_code = response.status_code,
                                         !.final_url = response.url]
             /\ IF HasText(response) THEN Goto("phase2") ELSE Raise(NoTextError)
  /\ UNCHANGED <<env, probeIdx, pathsFound, clock, history>>
  /\ UNCHANGED detVars
  /\ UNCHANGED clientVars

\* Lines 258-261: the four fields phase 2 copies from header_info.
WithHeaderInfo(res, header_info) ==
  [res EXCEPT !.server = header_info.server,
              !.backend = header_info.backend,
              !.headers = header_info.filtered_headers,
              !.cookies = header_info.cookies]

\* Lines 255-261.
Phase2 ==
  /\ pc = "phase2"
  /\ IF Raises("phase2")
     THEN /\ Raise(ErrorText("phase2"))
          /\ UNCHANGED result
     ELSE /\ result' = WithHeaderInfo(result, _analyze_headers(env.response.headers))
          /\ Goto("phase3")
  /\ UNCHANGED <<env, probeIdx, pathsFound, requests, clock, history>>
  /\ UNCHANGED detVars
  /\ UNCHANGED clientVars

\* Lines 263-266.
Phase3 ==
  /\ pc = "phase3"
  /\ IF Raises("phase3")
     THEN /\ Raise(ErrorText("phase3"))
          /\ UNCHANGED result
     ELSE /\ result' = [result EXCEPT !.waf = _detect_waf(env.response.headers,
                                                          env.response.text)]
          /\ Goto("phase4")
  /\ UNCHANGED <<env, probeIdx, pathsFound, requests, clock, history>>
  /\ UNCHANGED detVars
  /\ UNCHANGED clientVars

\* Lines 268-271.
Phase4 ==
  /\ pc = "phase4"
  /\ IF Raises("phase4")
     THEN /\ Raise(ErrorText("phase4"))
          /\ UNCHANGED result
     ELSE /\ result' = [result EXCEPT !.cms = _detect_cms(env.response.text,
                                                          env.response.headers,
                                                          UrlText(env.url))]
          /\ Goto("phase5")
  /\ UNCHANGED <<env, probeIdx, pathsFound, requests, clock, history>>
  /\ UNCHANGED detVars
  /\ UNCHANGED clientVars

\* Lines 273-276.
Phase5 ==
  /\ pc = "phase5"
  /\ IF Raises("phase5")
     THEN /\ Raise(ErrorText("phase5"))
          /\ UNCHANGED result
     ELSE /\ result' = [result EXCEPT !.framework =
                          _detect_frameworks(env.response.text, env.response.headers,
                                             result.cookies)]
          /\ Goto("phase6")
  /\ UNCHANGED <<env, probeIdx, pathsFound, requests, clock, history>>
  /\ UNCHANGED detVars
  /\ UNCHANGED clientVars

\* Variant: phase 6 leaves the database as the call found it.
Phase6Skipped ==
  /\ pc = "phase6"
  /\ Goto("phase7")
  /\ UNCHANGED <<env, result, probeIdx, pathsFound, requests, clock, history>>
  /\ UNCHANGED detVars
  /\ UNCHANGED clientVars

\* Lines 278-281.
Phase6 ==
  /\ pc = "phase6"
  /\ IF Raises("phase6")
     THEN /\ Raise(ErrorText("phase6"))
          /\ UNCHANGED result
     ELSE /\ result' = [result EXCEPT !.database = _detect_database(env.response.text,
                                                                    env.response.headers)]
          /\ Goto("phase7")
  /\ UNCHANGED <<env, probeIdx, pathsFound, requests, clock, history>>
  /\ UNCHANGED detVars
  /\ UNCHANGED clientVars

\* Lines 283-285, 558-571: _probe_common_paths starts.
Phase7 ==
  /\ pc = "phase7"
  /\ IF Raises("phase7") THEN Raise(ErrorText("phase7")) ELSE Goto("probe")
  /\ probeIdx' = 1
  /\ pathsFound' = << >>
  /\ UNCHANGED <<env, result, requests, clock, history>>
  /\ UNCHANGED detVars
  /\ UNCHANGED clientVars

\* The response of the probe of the i-th common path.
ProbeResponse(i) == Response(UrlJoin(BaseOf(env.url), common_paths[i]),
                             IF env.probes[i] = "200" THEN 200
                             ELSE IF env.probes[i] = "404" THEN 404 ELSE 0,
                             EmptyDict, << >>)

\* Variant: every response counts, whatever its status.
FoundAnyStatus(response) == IsTruthy(response)

\* Line 577:  response and response.status_code == 200
Found(response) == IsTruthy(response) /\ response.status_code = 200

\* Lines 573-579: one request of the loop.
Probe ==
  /\ pc = "probe"
  /\ probeIdx <= Len(common_paths)
  /\ requests' = Append(requests, UrlJoin(BaseOf(env.url), common_paths[probeIdx]))
  /\ LET response == _make_safe_request(env.probes[probeIdx] = "raises",
                                        ProbeResponse(probeIdx))
     IN pathsFound' = IF Found(response)
                      THEN Append(pathsFound, common_paths[probeIdx]) ELSE pathsFound
  /\ probeIdx' = probeIdx + 1
  /\ Goto("probe")
  /\ UNCHANGED <<env, result, clock, history>>
  /\ UNCHANGED detVars
  /\ UNCHANGED clientVars

\* Lines 581, 286: the loop is over.
ProbeDone ==
  /\ pc = "probe"
  /\ probeIdx > Len(common_paths)
  /\ result' = [result EXCEPT !.paths_found = pathsFound]
  /\ Goto("phase8")
  /\ UNCHANGED <<env, probeIdx, pathsFound, requests, clock, history>>
  /\ UNCHANGED detVars
  /\ UNCHANGED clientVars

\* Line 289.
Phase8TechList ==
  /\ pc = "phase8"
  /\ IF Raises("tech_list")
     THEN /\ Raise(ErrorText("tech_list"))
          /\ UNCHANGED result
     ELSE /\ result' = [result EXCEPT !.technologies = _build_tech_list(result)]
          /\ Goto("summary")
  /\ UNCHANGED <<env, probeIdx, pathsFound, requests, clock, history>>
  /\ UNCHANGED detVars
  /\ UNCHANGED clientVars

\* Line 290.
Phase8Summary ==
  /\ pc = "summary"
  /\ IF Raises("summary")
     THEN /\ Raise(ErrorText("summary"))
          /\ UNCHANGED result
     ELSE /\ result' = [result EXCEPT !.tech_stack_summary = _build_summary(result)]
          /\ Goto("confidence")
  /\ UNCHANGED <<env, probeIdx, pathsFound, requests, clock, history>>
  /\ UNCHANGED detVars
  /\ UNCHANGED clientVars

\* Lines 291-293.
Phase8Confidence ==
  /\ pc = "confidence"
  /\ IF Raises("confidence")
     THEN /\ Raise(ErrorText("confidence"))
          /\ UNCHANGED result
     ELSE /\ result' = [result EXCEPT !.fingerprint_confidence = _calculate_confidence(result)]
          /\ Goto("return")
  /\ UNCHANGED <<env, probeIdx, pathsFound, requests, clock, history>>
  /\ UNCHANGED detVars
  /\ UNCHANGED clientVars

\* Lines 295-297: the handler of the try block.
Except ==
  /\ pc = "except"
  /\ result' = OnException(result, exc)
  /\ exc' = None
  /\ pc' = "return"
  /\ UNCHANGED <<env, probeIdx, pathsFound, requests, clock, history>>
  /\ UNCHANGED detVars
  /\ UNCHANGED clientVars

\* Lines 248, 299: the call hands its result to the caller.
Return ==
  /\ pc = "return"
  /\ history' = Append(history, result)
  /\ pc' = "idle"
  /\ UNCHANGED <<env, result, exc, probeIdx, pathsFound, requests, clock>>
  /\ UNCHANGED detVars
  /\ UNCHANGED clientVars

\* ------------------------------------------------------ the detectors
\* What phases 2 to 6 make of a site, with the scores they build.
Detect(s) ==
  [header_info |-> _analyze_headers(s.headers),
   framework |-> _detect_frameworks(s.html, s.headers, CookieFlags(s.headers)),
   frameworkScores |-> FrameworkScores(s.html, s.headers, CookieFlags(s.headers)),
   cms |-> _detect_cms(s.html, s.headers, UrlText(TargetUrl)),
   waf |-> _detect_waf(s.headers, s.html),
   database |-> _detect_database(s.html, s.headers),
   cmsScores |-> CmsScores(s.headers, s.html),
   wafScores |-> WafScores(s.headers, s.html),
   dbScores |-> DbScores(s.html)]

\* The detectors have not run on the site yet.
NoDetection == [cls |-> "NoneType"]

\* The detectors run on the site as it is now.
RunDetectors ==
  /\ det = NoDetection
  /\ det' = Detect(site)
  /\ UNCHANGED <<site, prev, units>>
  /\ UNCHANGED pipeVars
  /\ UNCHANGED clientVars

\* The response gains one evidence unit, which the detectors have yet to see.
Observed(s) ==
  /\ det # NoDetection
  /\ units < MaxUnits
  /\ site' = s
  /\ prev' = det
  /\ det' = NoDetection
  /\ units' = units + 1
  /\ UNCHANGED pipeVars
  /\ UNCHANGED clientVars

ObserveBody ==
  \E text \in BodyUnits :
    /\ ~Contains(site.html, text)
    /\ Observed(AddBody(site, text))

ObserveHeader ==
  \E h \in HeaderUnits :
    /\ h.name \notin DOMAIN site.headers
    /\ Observed(AddHeader(site, h))

ObserveCookie ==
  \E c \in CookieUnits :
    /\ ~Contains(CookieStr(site.headers), c)
    /\ Observed(AddCookie(site, c))

\* The values a Server header may carry: a product in other letter case, a
\* second product, two products of the table in one value, and values in which
\* no product of the table is followed by a version.
ServerUnits == {
  [name |-> SERVER, value |-> <<"NGINX/", "1.18.0">>],
  [name |-> SERVER, value |-> <<"Apache/", "2.4.41">>],
  [name |-> SERVER, value |-> <<"Apache/", "2.4.41", " ", "nginx/", "1.18.0">>],
  [name |-> SERVER, value |-> <<"Apache-Coyote/", "1.1">>],
  [name |-> SERVER, value |-> <<"cloudflare">>],
  [name |-> SERVER, value |-> <<"nginx">>] }

ObserveServer ==
  \E h \in ServerUnits :
    /\ h.name \notin DOMAIN site.headers
    /\ Observed(AddHeader(site, h))

\* Headers whose names carry a header token of a backend framework.
FrameworkHeaderUnits == {
  [name |-> X_ASPNET_VERSION, value |-> <<"4.0.30319">>],
  [name |-> <<"X-AspNet", "Mvc", "-Version">>, value |-> <<"5.2">>],
  [name |-> <<"X-Laravel", "-Cache">>, value |-> <<"HIT">>] }

ObserveFrameworkHeader ==
  \E h \in FrameworkHeaderUnits :
    /\ h.name \notin DOMAIN site.headers
    /\ Observed(AddHeader(site, h))

\* The response gains a line of body text or a cookie it may already have.
ObserveBodyAgain ==
  \E text \in BodyUnits : Observed(AddBody(site, text))

ObserveCookieAgain ==
  \E c \in CookieUnits : Observed(AddCookie(site, c))

\* ----------------------------------------------------------- HTTPClient
\* http_client.py lines 48-68: a client as its constructor leaves it, with the
\* fields of the call of request in progress (at: "idle" between calls, "loop"
\* inside the retry loop; sent: the calls of session.request made by the call;
\* returned and raised: how the last call ended; errorsAtCall: error_count when
\* the call began; failures: the messages of the RequestExceptions of the call).
NewClient(max_retries) ==
  [max_retries |-> max_retries, request_count |-> 0, error_count |-> 0,
   at |-> "idle", attempt |-> 0, last_error |-> None, sent |-> 0, calls |-> 0,
   returned |-> NoResponse, raised |-> FALSE, errorsAtCall |-> 0,
   failures |-> << >>]

\* The client of the other specifications, which make no call of request.
ClientStart == client = NewClient(3)

\* What session.request does: it returns a response with one of these statuses,
\* raises a RequestException with one of these messages, or raises something
\* that is no RequestException.
Statuses == {200, 503}
RequestErrors_First == <<"timed out">>
RequestErrors_Last == <<"Connection refused">>
RequestErrors == {RequestErrors_First, RequestErrors_Last}

\* Lines 112-121: a call of request starts.
Request ==
  /\ client.at = "idle"
  /\ client.calls < MaxRequests
  /\ client' = [client EXCEPT !.at = "loop", !.attempt = 0, !.last_error = None,
                              !.sent = 0, !.calls = @ + 1, !.returned = NoResponse,
                              !.raised = FALSE, !.errorsAtCall = client.error_count,
                              !.failures = << >>]
  /\ UNCHANGED pipeVars
  /\ UNCHANGED detVars

\* Lines 122-154: an attempt that gets a response.
AttemptReturns ==
  /\ client.at = "loop"
  /\ client.attempt < client.max_retries
  /\ \E status \in Statuses :
       client' = [client EXCEPT !.sent = @ + 1, !.request_count = @ + 1,
                                !.returned = HTTPResponse(UrlText(TargetUrl), status,
                                                          EmptyDict, << >>, None),
                                !.at = "idle"]
  /\ UNCHANGED pipeVars
  /\ UNCHANGED detVars

\* A variant of AttemptFails that counts an error at every failed attempt.
AttemptFailsCounted ==
  /\ client.at = "loop"
  /\ client.attempt < client.max_retries
  /\ \E e \in RequestErrors :
       client' = [client EXCEPT !.sent = @ + 1, !.last_error = e,
                                !.failures = Append(@, e),
                                !.error_count = @ + 1,
                                !.attempt = @ + 1]
  /\ UNCHANGED pipeVars
  /\ UNCHANGED detVars

\* Lines 156-165: an attempt that raises a RequestException.
AttemptFails ==
  /\ client.at = "loop"
  /\ client.attempt < client.max_retries
  /\ \E e \in RequestErrors :
       client' = [client EXCEPT !.sent = @ + 1, !.last_error = e,
                                !.failures = Append(@, e),
                                !.error_count =
                                  IF client.attempt < client.max_retries - 1 THEN @ ELSE @ + 1,
                                !.attempt = @ + 1]
  /\ UNCHANGED pipeVars
  /\ UNCHANGED detVars

\* Line 126: an attempt that raises another exception, which leaves request.
AttemptRaises ==
  /\ client.at = "loop"
  /\ client.attempt < client.max_retries
  /\ client' = [client EXCEPT !.sent = @ + 1, !.raised = TRUE, !.at = "idle"]
  /\ UNCHANGED pipeVars
  /\ UNCHANGED detVars

\* Lines 167-177: the loop is over.
AllRetriesFailed ==
  /\ client.at = "loop"
  /\ client.attempt >= client.max_retries
  /\ client' = [client EXCEPT !.returned = HTTPResponse(UrlText(TargetUrl), 0, EmptyDict,
                                                        << >>, client.last_error),
                              !.at = "idle"]
  /\ UNCHANGED pipeVars
  /\ UNCHANGED detVars

\* Lines 210-219.  success_rate is the fraction num/den, den > 0.
get_stats(c) ==
  [total_requests |-> c.request_count,
   errors |-> c.error_count,
   success_rate |-> IF c.request_count > 0
                    THEN [num |-> (c.request_count - c.error_count) * 100,
                          den |-> c.request_count]
                    ELSE [num |-> 0, den |-> 1]]

\* ------------------------------------------------------ specifications
\* No call has been made: there is no result yet.
NoResult == [cls |-> "NoneType"]

QuietEnvironment ==
  [url |-> TargetUrl, fetch |-> "raises", response |-> NoResponse,
   probes |-> [i \in 1..Len(common_paths) |-> "404"], fault |-> "none"]

PipeStart ==
  /\ pc = "idle"
  /\ result = NoResult
  /\ exc = None
  /\ probeIdx = 1
  /\ pathsFound = << >>
  /\ requests = << >>
  /\ clock = 0
  /\ history = << >>

DetectStart(s) ==
  /\ site = s
  /\ det = NoDetection
  /\ prev = NoDetection
  /\ units = 0

\* analyze_target, called MaxCalls times on one target in one environment.
Init ==
  /\ env \in Environments
  /\ PipeStart
  /\ DetectStart(BlankSite)
  /\ ClientStart

Next ==
  \/ AnalyzeTarget
  \/ Phase1
  \/ Phase2
  \/ Phase3
  \/ Phase4
  \/ Phase5
  \/ Phase6
  \/ Phase7
  \/ Probe
  \/ ProbeDone
  \/ Phase8TechList
  \/ Phase8Summary
  \/ Phase8Confidence
  \/ Except
  \/ Return

Spec == Init /\ [][Next]_vars

\* The detectors on every response of up to MaxUnits evidence units over a base
\* site.
DetectInit ==
  /\ env = QuietEnvironment
  /\ PipeStart
  /\ \E s \in BaseSites : DetectStart(s)
  /\ ClientStart

DetectNext ==
  \/ RunDetectors
  \/ ObserveBody
  \/ ObserveHeader
  \/ ObserveCookie

DetectSpec == DetectInit /\ [][DetectNext]_vars

\* The detectors on every response of up to MaxUnits headers and cookies.
HeaderInit ==
  /\ env = QuietEnvironment
  /\ PipeStart
  /\ DetectStart(BlankSite)
  /\ ClientStart

HeaderNext ==
  \/ RunDetectors
  \/ ObserveServer
  \/ ObserveFrameworkHeader
  \/ ObserveHeader
  \/ ObserveCookie

HeaderSpec == HeaderInit /\ [][HeaderNext]_vars

\* The detectors on every response of up to MaxUnits body lines and cookies,
\* repeated ones among them.
WeightInit ==
  /\ env = QuietEnvironment
  /\ PipeStart
  /\ \E s \in BaseSites : DetectStart(s)
  /\ ClientStart

WeightNext ==
  \/ RunDetectors
  \/ ObserveBodyAgain
  \/ ObserveCookieAgain

WeightSpec == WeightInit /\ [][WeightNext]_vars

\* What phases 1 to 7 can leave in the result for phase 8 to read: per field,
\* values the detectors produce (an identified server always has a version, a
\* cookie alone gives a language without one, the database is never left
\* "unknown" by phase 6).
SynthInputs ==
  { [Skeleton(UrlText(TargetUrl), 0) EXCEPT
       !.status_code = 200,
       !.server = server, !.backend = backend, !.cms = cms,
       !.framework = [backend |-> fw, frontend |-> fe],
       !.database = db, !.waf = waf] :
      server \in { [name |-> Str("Unknown"), version |-> None],
                   [name |-> Str("nginx"), version |-> <<"1.18.0">>] },
      backend \in { [language |-> None, version |-> None],
                    [language |-> Str("PHP"), version |-> <<"7.4.3">>],
                    [language |-> Str("Python"), version |-> None] },
      cms \in { [name |-> None, version |-> None, confidence |-> "none", evidence |-> << >>],
                [name |-> Str("wordpress"), version |-> <<"5.8">>, confidence |-> "high",
                 evidence |-> << >>],
                [name |-> Str("shopify"), version |-> None, confidence |-> "medium",
                 evidence |-> << >>],
                [name |-> Str("drupal"), version |-> None, confidence |-> "low",
                 evidence |-> << >>] },
      fw \in { << >>,
               << [name |-> Str("laravel"), confidence |-> "high"] >>,
               << [name |-> Str("laravel"), confidence |-> "medium"],
                  [name |-> Str("flask"), confidence |-> "medium"] >> },
      fe \in { << >>, << Str("react") >>,
               << Str("react"), Str("vue"), Str("angular"), Str("jquery") >> },
      db \in { [type |-> Str("inferred"), confidence |-> "low", evidence |-> << >>],
               [type |-> Str("mongodb"), confidence |-> "low", evidence |-> << >>],
               [type |-> Str("postgresql"), confidence |-> "medium", evidence |-> << >>],
               [type |-> Str("mysql"), confidence |-> "high", evidence |-> << >>] },
      waf \in { [detected |-> FALSE, type |-> None, confidence |-> "none", evidence |-> << >>],
                [detected |-> TRUE, type |-> Str("cloudflare"), confidence |-> "medium",
                 evidence |-> << >>] } }

\* Phase 8 of one call, on every such result.
SynthInit ==
  /\ env = QuietEnvironment
  /\ pc = "phase8"
  /\ result \in SynthInputs
  /\ exc = None
  /\ probeIdx = Len(common_paths) + 1
  /\ pathsFound = << >>
  /\ requests = << >>
  /\ clock = 1
  /\ history = << >>
  /\ DetectStart(BlankSite)
  /\ ClientStart

SynthNext ==
  \/ Phase8TechList
  \/ Phase8Summary
  \/ Phase8Confidence
  \/ Return

SynthSpec == SynthInit /\ [][SynthNext]_vars

\* MaxRequests calls of request on a client of up to MaxRetries attempts.
ClientInit ==
  /\ env = QuietEnvironment
  /\ PipeStart
  /\ DetectStart(BlankSite)
  /\ \E n \in 0..MaxRetries : client = NewClient(n)

ClientNext ==
  \/ Request
  \/ AttemptReturns
  \/ AttemptFails
  \/ AttemptRaises
  \/ AllRetriesFailed

ClientSpec == ClientInit /\ [][ClientNext]_vars

\* ---------------------------------------------------------- properties
\* The environment's main fetch raises or hands back None.
FetchFailed == env.fetch = "raises" \/ env.response = NoResponse

\* The collaborator reports the failed fetch in one of its three ways.
FetchReportedFailed ==
  \/ FetchFailed
  \/ (env.response.cls = "HTTPResponse" /\ env.response.error # None)

\* analyze_target is at its return statement.
Returning == pc = "return"

\* The statements that can raise, in the order analyze_target runs them.
PhaseOrder == <<"phase2", "phase3", "phase4", "phase5", "phase6", "phase7",
                "tech_list", "summary", "confidence">>
RankOf(where) == CHOOSE i \in 1..Len(PhaseOrder) : PhaseOrder[i] = where

\* The common paths the environment answers with status 200, in order.
ReachablePaths ==
  LET ok(i) == env.probes[i] = "200"
      idx == SelectSeq([i \in 1..Len(common_paths) |-> i], ok)
  IN [k \in 1..Len(idx) |-> common_paths[idx[k]]]

C2_UnreachableResult ==
  (Returning /\ FetchFailed) =>
    /\ result.errors # << >>
    /\ result.cms.name = None
    /\ result.waf.detected = FALSE
    /\ result.technologies = << >>
    /\ result.tech_stack_summary = <<"Unknown Stack">>

\* C3: when the main fetch fails (the collaborator raises, hands back None, or
\* hands back HTTPClient's error response), the call returns having sent
\* exactly one request, the main one, with every category field at its default.
C3_NothingAfterFailedFetch ==
  (Returning /\ FetchReportedFailed) =>
    LET d == Skeleton(UrlText(env.url), result.timestamp)
    IN /\ requests = <<UrlText(env.url)>>
       /\ result.server = d.server
       /\ result.backend = d.backend
       /\ result.waf = d.waf
       /\ result.cms = d.cms
       /\ result.framework = d.framework
       /\ result.database = d.database
       /\ result.paths_found = d.paths_found
       /\ result.errors # << >>

\* A call returns after a failed fetch on a target whose common paths would
\* have answered.
C3_Witness ==
  /\ Returning
  /\ FetchFailed
  /\ ReachablePaths # << >>
  /\ Len(requests) = 1

\* C4: however the collaborator reports the failed fetch (raising, None, or a
\* response with its error field set and status 0), the call returns after
\* its single request with the default skeleton and a non-empty errors list.
C4_EveryFailureUnreachable ==
  (Returning /\ FetchReportedFailed) =>
    /\ Len(requests) = 1
    /\ result.errors # << >>
    /\ [result EXCEPT !.errors = << >>] = Skeleton(UrlText(env.url), result.timestamp)

\* C6: in every returned result, technologies, the summary and the overall
\* confidence are what the three builders return on that result.
C6_Recomputable ==
  Returning =>
    /\ result.technologies = _build_tech_list(result)
    /\ result.tech_stack_summary = _build_summary(result)
    /\ result.fingerprint_confidence = _calculate_confidence(result)

\* C7: the calls made on one target in one environment return results equal
\* in every field but timestamp.
C7_Deterministic ==
  \A i, j \in 1..Len(history) :
    [history[i] EXCEPT !.timestamp = 0] = [history[j] EXCEPT !.timestamp = 0]

\* Two calls have returned, at different times, a full fingerprint.
C7_Witness ==
  /\ Len(history) >= 2
  /\ history[1].timestamp # history[2].timestamp
  /\ history[2].technologies # << >>
  /\ history[2].paths_found # << >>
  /\ history[2].errors = << >>

\* The detectors have run on the site.
Detected == det # NoDetection

\* The entries of a score dict that no entry beats, none of them zero.
Leaders(scores) ==
  {i \in 1..Len(scores) : scores[i] > 0 /\ \A j \in 1..Len(scores) : scores[j] <= scores[i]}

\* The leader that its table declares before every other leader.
IsFirstLeader(scores, i) ==
  i \in Leaders(scores) /\ \A j \in Leaders(scores) : i <= j

\* C5: in CMS, WAF and database detection, when candidates share the highest
\* nonzero score, the one reported is the one its table declares first.
C5_TieBreak ==
  Detected =>
    /\ \A i \in 1..Len(cms_patterns) :
         IsFirstLeader(det.cmsScores, i) => det.cms.name = Str(cms_patterns[i].name)
    /\ \A i \in 1..Len(waf_patterns) :
         IsFirstLeader(det.wafScores, i) => det.waf.type = Str(waf_patterns[i].name)
    /\ \A i \in 1..Len(db_patterns) :
         IsFirstLeader(det.dbScores, i) => det.database.type = Str(db_patterns[i].name)

\* Two CMS candidates lead with the same score, and the one reported is the
\* first of them.
C5_Witness ==
  /\ Detected
  /\ \E i, j \in Leaders(det.cmsScores) :
       /\ i < j
       /\ IsFirstLeader(det.cmsScores, i)
       /\ det.cms.name = Str(cms_patterns[i].name)

\* The name a category reports is that of candidate i of its table.
Reports(name, table, i) == name = Str(table[i].name)

\* C8: for the CMS and WAF categories, one more evidence unit lowers no
\* candidate's score, and the reported winner's score is below no candidate's.
C8_Monotone ==
  Detected =>
    /\ \A i \in 1..Len(cms_patterns) :
         /\ prev # NoDetection => det.cmsScores[i] >= prev.cmsScores[i]
         /\ \A w \in 1..Len(cms_patterns) :
              Reports(det.cms.name, cms_patterns, w) => det.cmsScores[w] >= det.cmsScores[i]
    /\ \A i \in 1..Len(waf_patterns) :
         /\ prev # NoDetection => det.wafScores[i] >= prev.wafScores[i]
         /\ \A w \in 1..Len(waf_patterns) :
              Reports(det.waf.type, waf_patterns, w) => det.wafScores[w] >= det.wafScores[i]

\* An evidence unit raised a CMS candidate past the previous winner and a WAF
\* unit had raised a WAF candidate.
C8_Witness ==
  /\ Detected
  /\ units = MaxUnits
  /\ prev.cms.name # None
  /\ det.cms.name # prev.cms.name
  /\ \E i \in 1..Len(cms_patterns) : det.cmsScores[i] > prev.cmsScores[i]
  /\ det.waf.detected

\* No database error pattern is found in the body.
NoDbPattern(html) ==
  \A i \in 1..Len(db_patterns) : \A k \in 1..Len(db_patterns[i].patterns) :
    ~Search(db_patterns[i].patterns[k].re, html).found

\* C9: when the body matches no database error pattern, database detection
\* reports type "inferred", confidence "low" and no evidence.
C9_DbFallback ==
  (Detected /\ NoDbPattern(site.html)) =>
    det.database = [type |-> Str("inferred"), confidence |-> "low", evidence |-> << >>]

\* A body with text, none of it a database error, has its database inferred.
C9_Witness ==
  /\ Detected
  /\ units > 0
  /\ Contains(site.html, CLOUDFLARE_PAGE)
  /\ NoDbPattern(site.html)
  /\ det.database.type = Str("inferred")

\* The body contains wp-content and /wp-login.php answers 200.
ScenarioA ==
  /\ Detected
  /\ Contains(site.html, WP_CONTENT)
  /\ WP_LOGIN \in site.reachable

\* C10 as stated: in scenario A the CMS reported is wordpress, with confidence
\* medium or high, whatever else the response carries.
C10_ScenarioA_AsStated ==
  ScenarioA =>
    /\ det.cms.name = Str("wordpress")
    /\ det.cms.confidence \in {"medium", "high"}

\* C10: in scenario A a CMS is reported with confidence medium or high, and it
\* is wordpress unless another candidate's score is strictly above wordpress's.
C10_ScenarioA ==
  ScenarioA =>
    /\ det.cms.name # None
    /\ det.cms.confidence \in {"medium", "high"}
    /\ \A w \in 1..Len(cms_patterns) :
         cms_patterns[w].name = "wordpress" =>
           \/ det.cms.name = Str("wordpress")
           \/ \E i \in 1..Len(cms_patterns) :
                /\ Reports(det.cms.name, cms_patterns, i)
                /\ det.cmsScores[i] > det.cmsScores[w]

\* Scenario A with a Drupal generator tag in the body: drupal is reported.
C10_Witness ==
  /\ ScenarioA
  /\ Contains(site.html, DRUPAL_GENERATOR)
  /\ det.cms.name = Str("drupal")

\* The Set-Cookie value contains __cfduid.
ScenarioB == Detected /\ Contains(CookieStr(site.headers), <<"__cfduid">>)

\* C11 as stated: in scenario B a WAF is detected and it is cloudflare, whatever
\* else the response carries.
C11_ScenarioB_AsStated ==
  ScenarioB =>
    /\ det.waf.detected
    /\ det.waf.type = Str("cloudflare")

\* C11: in scenario B a WAF is detected, and it is cloudflare unless another
\* candidate's score is strictly above cloudflare's.
C11_ScenarioB ==
  ScenarioB =>
    /\ det.waf.detected
    /\ \A w \in 1..Len(waf_patterns) :
         waf_patterns[w].name = "cloudflare" =>
           /\ det.wafScores[w] >= 2
           /\ \/ det.waf.type = Str("cloudflare")
              \/ \E i \in 1..Len(waf_patterns) :
                   /\ Reports(det.waf.type, waf_patterns, i)
                   /\ det.wafScores[i] > det.wafScores[w]

\* Scenario B on a site that also shows Akamai's header and cookie: akamai is
\* reported.
C11_Witness ==
  /\ ScenarioB
  /\ Contains(CookieStr(site.headers), <<"ak_bmsc">>)
  /\ det.waf.type = Str("akamai")

\* Where the value v of a Server header has the product of server signature i,
\* letter case apart, followed by a version.
ProductAt(v, i) ==
  {k \in 1..(Len(v) - 1) :
     /\ Lower(v[k]) = Lower(server_patterns[i].pattern.re[1].a)
     /\ v[k + 1] \in VersionAtoms}

\* C12: when the Server header has a product of the server table followed by
\* a version, header analysis reports the first-declared such product and the
\* version that follows its first occurrence; when it has none, or there is no
\* Server header, it reports the name "Unknown" and no version.
C12_ServerHeader ==
  Detected =>
    LET v == IF SERVER \in DOMAIN site.headers THEN site.headers[SERVER] ELSE << >>
        sigs == {i \in 1..Len(server_patterns) : ProductAt(v, i) # {}}
    IN IF sigs = {}
       THEN det.header_info.server = [name |-> Str("Unknown"), version |-> None]
       ELSE \A i \in sigs :
              (\A j \in sigs : i <= j) =>
                det.header_info.server =
                  [name |-> Str(server_patterns[i].name),
                   version |-> <<v[MinOf(ProductAt(v, i)) + 1]>>]

\* A Server header naming Apache and then nginx: nginx, declared first, is
\* reported with its version.
C12_Witness ==
  /\ Detected
  /\ SERVER \in DOMAIN site.headers
  /\ site.headers[SERVER] = <<"Apache/", "2.4.41", " ", "nginx/", "1.18.0">>
  /\ det.header_info.server = [name |-> Str("nginx"), version |-> <<"1.18.0">>]

ConfidenceLevels == {"none", "low", "medium", "high"}

\* C13: in the result analyze_target returns, the confidence of the cms, the
\* waf, the database, every backend framework entry and the fingerprint as a
\* whole is present and is one of none, low, medium, high.
C13_ConfidenceLevels ==
  Returning =>
    /\ \A part \in {"cms", "waf", "database"} :
         /\ "confidence" \in DOMAIN result[part]
         /\ result[part].confidence \in ConfidenceLevels
    /\ \A i \in 1..Len(result.framework.backend) :
         /\ "confidence" \in DOMAIN result.framework.backend[i]
         /\ result.framework.backend[i].confidence \in ConfidenceLevels
    /\ "fingerprint_confidence" \in DOMAIN result
    /\ result.fingerprint_confidence \in ConfidenceLevels

\* A returned result with a backend framework entry, a cms winner and a
\* fingerprint confidence computed in phase 8.
C13_Witness ==
  /\ Returning
  /\ result.errors = << >>
  /\ result.framework.backend # << >>
  /\ result.cms.confidence # "none"
  /\ result.fingerprint_confidence # "low"

\* The common paths among the first n whose probe the environment answers with
\* status 200, in order.
ReachableAmong(n) ==
  LET ok(i) == i <= n /\ env.probes[i] = "200"
      idx == SelectSeq([i \in 1..Len(common_paths) |-> i], ok)
  IN [k \in 1..Len(idx) |-> common_paths[idx[k]]]

\* C14: the path prober collects exactly the common paths whose probe answered
\* 200, in the order of the list; a probe that raises or answers another status
\* only leaves its path out: every one of the seven paths is requested, the
\* pipeline goes on to phase 8, and the probes add nothing to errors.
C14_PathProber ==
  /\ [](pc = "probe" =>
          /\ pathsFound = ReachableAmong(probeIdx - 1)
          /\ Len(requests) = probeIdx
          /\ result.errors = << >>)
  /\ [](pc = "phase8" =>
          /\ result.paths_found = ReachablePaths
          /\ Len(requests) = 1 + Len(common_paths)
          /\ \A i \in 1..Len(common_paths) :
               requests[1 + i] = UrlJoin(BaseOf(env.url), common_paths[i])
          /\ result.errors = << >>)
  /\ [][pc = "probe" => pc' \in {"probe", "phase8"} /\ exc' = exc]_vars

\* The probes of the third and sixth paths raised, the fifth answered 200 and is
\* in the list, and the pipeline is at phase 8.
C14_Witness ==
  /\ pc = "phase8"
  /\ env.probes[3] = "raises"
  /\ env.probes[5] = "200"
  /\ env.probes[6] = "raises"
  /\ env.probes[7] = "404"
  /\ result.paths_found = <<common_paths[1], common_paths[5]>>

\* The response with every header name in lower case, values untouched.
LowerNames(headers) ==
  [k \in {LowerText(h) : h \in DOMAIN headers} |->
     headers[CHOOSE h \in DOMAIN headers : LowerText(h) = k]]

\* C15: a response and the same response with its header names in lower case
\* get the same server, backend, cookies, WAF, CMS and framework results.
C15_HeaderNameCase ==
  Detected =>
    LET other == Detect([site EXCEPT !.headers = LowerNames(@)])
    IN /\ other.header_info.server = det.header_info.server
       /\ other.header_info.backend = det.header_info.backend
       /\ other.header_info.cookies = det.header_info.cookies
       /\ other.waf = det.waf
       /\ other.cms = det.cms
       /\ other.framework = det.framework

\* How many of the well-known paths of CMS candidate i the site answers with 200.
ReachableCmsPaths(s, i) ==
  Cardinality({k \in 1..Len(cms_patterns[i].paths) : cms_patterns[i].paths[k] \in s.reachable})

\* C16: each reachable well-known path of a CMS candidate adds 1 to its score
\* and an entry to the evidence: against the same response with no path
\* reachable, the score of every candidate is higher by the number of its
\* reachable paths, and the evidence longer by the number of them all.
C16_CmsPaths ==
  Detected =>
    LET bare == Detect([site EXCEPT !.reachable = {}])
    IN /\ \A i \in 1..Len(cms_patterns) :
            det.cmsScores[i] = bare.cmsScores[i] + ReachableCmsPaths(site, i)
       /\ (\E i \in 1..Len(cms_patterns) : ReachableCmsPaths(site, i) > 0) =>
            Len(det.cms.evidence) > Len(bare.cms.evidence)

\* How many header tokens of a candidate some header name of the response
\* contains, letter case apart.
HeaderTokensHit(sig, headers) ==
  Cardinality({k \in 1..Len(sig.headers) :
                 \E h \in DOMAIN headers : ContainsLower(h, sig.headers[k])})

\* The response with no header but Set-Cookie.
WithoutHeaders(s) ==
  [s EXCEPT !.headers = [h \in {SET_COOKIE} \cap DOMAIN @ |-> @[h]]]

\* What the header tokens add to the scores: against the response without its
\* headers, every WAF candidate is higher by waf, every CMS candidate by cms and
\* every backend framework by framework for each header token found.
HeaderWeights(waf, cms, framework) ==
  /\ \A i \in 1..Len(waf_patterns) :
       det.wafScores[i] = WafScore(waf_patterns[i], WithoutHeaders(site).headers, site.html)
                            + waf * HeaderTokensHit(waf_patterns[i], site.headers)
  /\ \A i \in 1..Len(cms_patterns) :
       det.cmsScores[i] = CmsScore(cms_patterns[i], WithoutHeaders(site).headers, site.html)
                            + cms * HeaderTokensHit(cms_patterns[i], site.headers)
  /\ \A i \in 1..Len(framework_patterns) :
       det.frameworkScores[i] =
         FrameworkScore(framework_patterns[i], site.html, WithoutHeaders(site).headers,
                        CookieFlags(site.headers))
           + framework * HeaderTokensHit(framework_patterns[i], site.headers)

CookieTokensHit(sig, headers) ==
  Cardinality({k \in 1..Len(sig.cookies) : Contains(CookieStr(headers), sig.cookies[k])})
BodyPatternsHit(sig, html) ==
  Cardinality({k \in 1..Len(sig.patterns) : Search(sig.patterns[k].re, html).found})

\* The response without its Set-Cookie header, and the one without its body.
WithoutCookies(s) ==
  [s EXCEPT !.headers = [h \in (DOMAIN @) \ {SET_COOKIE} |-> @[h]]]
WithoutBody(s) == [s EXCEPT !.html = << >>]

\* How many times text t has s in it.
Occurrences(t, s) == Cardinality({i \in 1..Len(t) : IsSubAt(t, s, i)})

\* C18: against the response without its cookies, a candidate scores 1 more in
\* CMS and framework detection and 2 more in WAF detection for each of its
\* cookie tokens found in Set-Cookie; against the response without its body, it
\* scores 1 more in WAF detection and 2 more in CMS detection for each of its
\* body patterns that match; a token or pattern counts once however often it
\* occurs.
C18_CookieBodyWeight ==
  Detected =>
    LET noCookies == WithoutCookies(site).headers
        noBody == WithoutBody(site).html
    IN /\ \A i \in 1..Len(waf_patterns) :
            /\ det.wafScores[i] - WafScore(waf_patterns[i], noCookies, site.html)
                 = 2 * CookieTokensHit(waf_patterns[i], site.headers)
            /\ det.wafScores[i] - WafScore(waf_patterns[i], site.headers, noBody)
                 = 1 * BodyPatternsHit(waf_patterns[i], site.html)
       /\ \A i \in 1..Len(cms_patterns) :
            /\ det.cmsScores[i] - CmsScore(cms_patterns[i], noCookies, site.html)
                 = 1 * CookieTokensHit(cms_patterns[i], site.headers)
            /\ det.cmsScores[i] - CmsScore(cms_patterns[i], site.headers, noBody)
                 = 2 * BodyPatternsHit(cms_patterns[i], site.html)
       /\ \A i \in 1..Len(framework_patterns) :
            det.frameworkScores[i]
              - FrameworkScore(framework_patterns[i], site.html, noCookies, CookieFlags(noCookies))
              = 1 * CookieTokensHit(framework_patterns[i], site.headers)

\* A body with wp-content in it twice and a wordpress cookie: wordpress scores
\* 2 for the pattern and 1 for the cookie.
C18_Witness ==
  /\ Detected
  /\ Occurrences(site.html, <<"wp-content">>) = 2
  /\ Contains(CookieStr(site.headers), <<"wordpress_", "logged_in">>)
  /\ \E i \in 1..Len(cms_patterns) :
       cms_patterns[i].name = "wordpress" /\ det.cmsScores[i] = 3

\* The tier of a nonzero score: "high" from the given score on, "medium" from 2
\* on, "low" below.
TierOf(score, high) ==
  IF score >= high THEN "high" ELSE IF score >= 2 THEN "medium" ELSE "low"

\* C19: the CMS confidence is high from a winner's score of 4, medium from 2
\* and low for 1; the WAF and database confidences are high from 3, medium from
\* 2 and low otherwise; when every CMS (every WAF) candidate scores 0, no CMS
\* (no WAF) is reported and the confidence is "none".
C19_Tiers ==
  Detected =>
    /\ IF \A i \in 1..Len(cms_patterns) : det.cmsScores[i] = 0
       THEN det.cms.name = None /\ det.cms.confidence = "none"
       ELSE \E i \in 1..Len(cms_patterns) :
              /\ Reports(det.cms.name, cms_patterns, i)
              /\ det.cms.confidence = TierOf(det.cmsScores[i], 4)
    /\ IF \A i \in 1..Len(waf_patterns) : det.wafScores[i] = 0
       THEN ~det.waf.detected /\ det.waf.type = None /\ det.waf.confidence = "none"
       ELSE \E i \in 1..Len(waf_patterns) :
              /\ det.waf.detected
              /\ Reports(det.waf.type, waf_patterns, i)
              /\ det.waf.confidence = TierOf(det.wafScores[i], 3)
    /\ IF \A i \in 1..Len(db_patterns) : det.dbScores[i] = 0
       THEN det.database.confidence = "low"
       ELSE \E i \in 1..Len(db_patterns) :
              /\ Reports(det.database.type, db_patterns, i)
              /\ det.database.confidence = TierOf(det.dbScores[i], 3)

\* A CMS winner at 4 is high, a WAF winner at 2 medium, and no database pattern
\* leaves the database confidence low.
C19_Witness ==
  /\ Detected
  /\ \E i \in 1..Len(cms_patterns) : det.cmsScores[i] = 4
  /\ det.cms.confidence = "high"
  /\ \E i \in 1..Len(waf_patterns) : det.wafScores[i] = 2
  /\ det.waf.confidence = "medium"
  /\ det.database.confidence = "low"

\* The framework candidates that score, in the order of the table.
ScoringFrameworks(scores) ==
  LET scored(i) == scores[i] > 0
  IN SelectSeq([i \in 1..Len(framework_patterns) |-> i], scored)

\* C20: the backend frameworks reported are the candidates with a nonzero
\* score, in the order of the table, each with confidence "high" when its score
\* is at least 2 and "medium" otherwise; a candidate that scores 0 is not
\* reported and no entry is "low".
C20_BackendFrameworks ==
  Detected =>
    LET idx == ScoringFrameworks(det.frameworkScores)
    IN /\ Len(det.framework.backend) = Len(idx)
       /\ \A k \in 1..Len(idx) :
            /\ det.framework.backend[k].name = Str(framework_patterns[idx[k]].name)
            /\ det.framework.backend[k].confidence =
                 IF det.frameworkScores[idx[k]] >= 2 THEN "high" ELSE "medium"
       /\ \A i \in 1..Len(framework_patterns) :
            det.frameworkScores[i] = 0 =>
              \A k \in 1..Len(det.framework.backend) :
                det.framework.backend[k].name # Str(framework_patterns[i].name)
       /\ \A k \in 1..Len(det.framework.backend) :
            det.framework.backend[k].confidence # "low"

\* The laravel cookie and a laravel header: laravel is reported high, then
\* flask, whose cookie token "session" the laravel cookie contains, medium.
C20_Witness ==
  /\ Detected
  /\ det.framework.backend =
       << [name |-> Str("laravel"), confidence |-> "high"],
          [name |-> Str("flask"), confidence |-> "medium"] >>

\* What the groups of the matched body patterns of CMS candidate w captured,
\* in the order of its patterns, the empty captures left out.
WinnerCaptures(w, html) ==
  LET captures(q) == q.groups > 0 /\ Search(q.re, html).found /\ Search(q.re, html).cap # << >>
  IN Hits(cms_patterns[w].patterns, captures)

\* C21: the CMS version reported is what the first matched body pattern of the
\* winning candidate with a non-empty capture group captured, and none when the
\* winner has no such pattern or there is no winner: the patterns of the other
\* candidates and the patterns without a group supply no version.
C21_CmsVersion ==
  Detected =>
    /\ det.cms.name = None => det.cms.version = None
    /\ \A w \in 1..Len(cms_patterns) :
         Reports(det.cms.name, cms_patterns, w) =>
           det.cms.version =
             IF WinnerCaptures(w, site.html) = << >> THEN None
             ELSE Search(WinnerCaptures(w, site.html)[1].re, site.html).cap

\* Phase 8 has assigned the technologies, and nothing raised.
TechListBuilt == pc \in {"summary", "confidence", "return"} /\ result.errors = << >>

\* The one-entry list of x when cond holds, the empty list otherwise.
Opt(cond, x) == IF cond THEN <<x>> ELSE << >>
\* A name followed by its version, when it has one.
Versioned(name, version) == IF version = None THEN name ELSE name \o <<" ">> \o version
\* The first n names at most, separated by ", ".
FirstNames(names, n) ==
  Join([k \in 1..(IF Len(names) < n THEN Len(names) ELSE n) |-> names[k]], <<", ">>)

\* C22: the technologies are, in this order and with nothing else: the server
\* with its version if it is identified, the backend language with its version
\* if known, the CMS with its version if identified, the name of each backend
\* framework, "Database: <type>" with " (inferred)" when the database confidence
\* is low, "WAF: <type>" if a WAF is detected, and "Frontend: " with the first
\* three frontend names at most if there is any.
C22_TechList ==
  TechListBuilt =>
    result.technologies =
      Opt(result.server.name # Str("Unknown"),
          Versioned(result.server.name, result.server.version))
      \o Opt(result.backend.language # None,
             Versioned(result.backend.language, result.backend.version))
      \o Opt(result.cms.name # None, Versioned(result.cms.name, result.cms.version))
      \o [k \in 1..Len(result.framework.backend) |-> result.framework.backend[k].name]
      \o << <<"Database: ">> \o result.database.type
              \o (IF result.database.confidence = "low" THEN <<" (inferred)">> ELSE << >>) >>
      \o Opt(result.waf.detected, <<"WAF: ">> \o result.waf.type)
      \o Opt(result.framework.frontend # << >>,
             <<"Frontend: ">> \o FirstNames(result.framework.frontend, 3))

\* Every part is there: a server, a language, a CMS, two backend frameworks, an
\* inferred database, a WAF, and four frontend frameworks of which three are
\* listed.
C22_Witness ==
  /\ TechListBuilt
  /\ Len(result.framework.frontend) = 4
  /\ result.technologies =
       << <<"nginx", " ", "1.18.0">>, <<"PHP", " ", "7.4.3">>, <<"wordpress", " ", "5.8">>,
          <<"laravel">>, <<"flask">>, <<"Database: ", "inferred", " (inferred)">>,
          <<"WAF: ", "cloudflare">>, <<"Frontend: ", "react", ", ", "vue", ", ", "angular">> >>

\* Phase 8 has assigned the summary, and nothing raised.
SummaryBuilt == pc \in {"confidence", "return"} /\ result.errors = << >>

\* The parts of the summary, in order.
SummaryParts(r) ==
  Opt(r.server.name # Str("Unknown"), r.server.name)
  \o Opt(r.backend.language # None, r.backend.language)
  \o (IF r.cms.name # None THEN <<r.cms.name>>
      ELSE Opt(r.framework.backend # << >>, r.framework.backend[1].name))
  \o Opt(r.database.type # Str("unknown"), <<"DB:">> \o r.database.type)
  \o Opt(r.waf.detected, <<"WAF:">> \o r.waf.type)

PartScore(cond, points) == IF cond THEN points ELSE 0

\* C24: the fingerprint confidence is high from a score of 6, medium from 3 and
\* low below, the score being 1 for a known server, 2 for a known backend
\* language, 2 for a named CMS of high or medium confidence, 2 for a database
\* of high or medium confidence, and 1 for any backend or frontend framework.
C24_Confidence ==
  (pc = "return" /\ result.errors = << >>) =>
    LET score ==
          PartScore(result.server.name # Str("Unknown"), 1)
          + PartScore(result.backend.language # None, 2)
          + PartScore(result.cms.name # None /\ result.cms.confidence \in {"high", "medium"}, 2)
          + PartScore(result.database.confidence \in {"high", "medium"}, 2)
          + PartScore(Len(result.framework.backend) + Len(result.framework.frontend) > 0, 1)
    IN result.fingerprint_confidence =
         IF score >= 6 THEN "high" ELSE IF score >= 3 THEN "medium" ELSE "low"

\* A server, a language and a CMS of low confidence score 3: medium.
C24_Witness ==
  /\ pc = "return"
  /\ result.errors = << >>
  /\ result.server.name = Str("nginx")
  /\ result.backend.language = Str("PHP")
  /\ result.cms.name = Str("drupal")
  /\ result.cms.confidence = "low"
  /\ result.database.confidence = "low"
  /\ result.framework.backend = << >>
  /\ result.framework.frontend = << >>
  /\ result.fingerprint_confidence = "medium"

\* The requests of one call when none is left out: the main fetch, then the
\* common paths in the order of the list.
RequestPlan ==
  <<UrlText(env.url)>> \o [i \in 1..Len(common_paths) |-> BaseOf(env.url) \o common_paths[i]]

\* The requests sent so far are the first ones of the plan, each sent once: the
\* fixed order, and no request sent again after it failed.
InPlanOrder ==
  /\ [](/\ Len(requests) <= Len(RequestPlan)
        /\ requests = SubSeq(RequestPlan, 1, Len(requests)))
  /\ [][requests' # requests =>
          \/ /\ Len(requests) < Len(RequestPlan)
             /\ requests' = Append(requests, RequestPlan[Len(requests) + 1])
          \/ requests' = << >> /\ pc = "idle"]_vars

\* C25 as stated: the requests of a call go out in the fixed order, one at a
\* time, none sent again after a failure, and no URL is requested twice.
C25_RequestOrder_AsStated ==
  /\ InPlanOrder
  /\ [](\A i, j \in 1..Len(requests) : requests[i] = requests[j] => i = j)

\* C25: the requests of a call go out in the fixed order, one at a time, none
\* sent again after a failure; a URL is requested twice only when the target
\* URL is itself the URL of a common path, which is then probed as well.
C25_RequestOrder ==
  /\ InPlanOrder
  /\ [](\A i, j \in 1..Len(requests) :
          (i < j /\ requests[i] = requests[j]) =>
             /\ i = 1
             /\ \E k \in 1..Len(common_paths) :
                  j = k + 1 /\ UrlText(env.url) = BaseOf(env.url) \o common_paths[k])

\* All eight requests of a call on /admin are out: two probes raised and were
\* not sent again, and the probe of /admin asked for the target URL once more.
C25_Witness ==
  /\ pc = "phase8"
  /\ env.url = AdminUrl
  /\ env.probes[3] = "raises"
  /\ env.probes[6] = "raises"
  /\ requests = RequestPlan
  /\ requests[1] = requests[5]

\* The call is returning with no error: its eight phases ran to the end.
Completed == Returning /\ result.errors = << >>

\* C26: when a call completes its eight phases, the database type is one of
\* the six database names or "inferred", never "unknown"; the technologies hold
\* a "Database: ..." entry, and the summary has a "DB:..." part and is not
\* "Unknown Stack".
C26_DatabaseAlwaysNamed ==
  Completed =>
    /\ \/ result.database.type = Str("inferred")
       \/ \E i \in 1..Len(db_patterns) : result.database.type = Str(db_patterns[i].name)
    /\ Len(db_patterns) = 6
    /\ result.database.type # Str("unknown")
    /\ result.technologies # << >>
    /\ \E k \in 1..Len(result.technologies) :
         IsSubAt(result.technologies[k], <<"Database: ">> \o result.database.type, 1)
    /\ Contains(result.tech_stack_summary, <<"DB:">> \o result.database.type)
    /\ result.tech_stack_summary # <<"Unknown Stack">>

\* A response with no header and no body, matching no signature, fingerprinted
\* to the end.
C26_Witness ==
  /\ Completed
  /\ env.response.headers = EmptyDict
  /\ env.response.text = << >>
  /\ result.database.type = Str("inferred")
  /\ result.technologies = << <<"Database: ", "inferred", " (inferred)">> >>
  /\ result.tech_stack_summary = <<"DB:", "inferred">>

\* C27: a returned result has at most one entry in errors, and none exactly
\* when the call comes to its return statement from the last statement of phase
\* 8, technologies, summary and confidence assigned.
C27_ErrorsAndCompletion ==
  /\ [](Returning => Len(result.errors) <= 1)
  /\ [][(pc' = "return" /\ pc # "return") =>
          /\ result'.errors = << >> <=> pc = "confidence"
          /\ pc = "confidence" =>
               /\ result'.technologies = _build_tech_list(result')
               /\ result'.tech_stack_summary = _build_summary(result')
               /\ result'.fingerprint_confidence = _calculate_confidence(result')]_vars

\* The last statement of phase 8 raised: technologies and summary are assigned,
\* the confidence is not, and errors holds the one message.
C27_Witness ==
  /\ Returning
  /\ env.fault = "confidence"
  /\ Len(result.errors) = 1
  /\ result.technologies # << >>
  /\ result.tech_stack_summary # <<"Unknown">>

\* The winner fields of a waf and a cms entry agree.
WinnersConsistent(waf, cms) ==
  /\ waf.detected <=> waf.type # None
  /\ waf.detected <=> waf.confidence # "none"
  /\ cms.name # None <=> cms.confidence # "none"
  /\ cms.version # None => cms.name # None

\* C28: the waf and cms entries of a result, which are the defaults of the
\* skeleton or what WAF and CMS detection returned, are consistent: a WAF is
\* detected exactly when its type is set and exactly when its confidence is not
\* "none"; a CMS is named exactly when its confidence is not "none"; a CMS
\* version comes with a CMS name.
C28_WinnersConsistent ==
  /\ WinnersConsistent(Skeleton(UrlText(TargetUrl), 0).waf, Skeleton(UrlText(TargetUrl), 0).cms)
  /\ Detected => WinnersConsistent(det.waf, det.cms)

\* A WAF of the lowest confidence next to a CMS reported with its version.
C28_Witness ==
  /\ Detected
  /\ det.waf.detected
  /\ det.waf.confidence = "low"
  /\ det.cms.name = Str("wordpress")
  /\ det.cms.version = <<"5.8">>

\* ------------------------------------------------------------------ C29
\* A call of request has returned: it is over and raised nothing.
RequestReturned == client.at = "idle" /\ client.calls > 0 /\ ~client.raised

\* The call returned the response of an attempt.
ReturnedSuccess ==
  /\ client.returned.status_code \in Statuses
  /\ client.returned.error = None
  /\ client.sent = Len(client.failures) + 1
  /\ client.error_count = client.errorsAtCall

\* The call returned the failure response after max_retries failed attempts.
ReturnedFailure ==
  /\ client.returned.status_code = 0
  /\ client.returned.headers = EmptyDict
  /\ client.returned.body = << >>
  /\ client.sent = client.max_retries
  /\ Len(client.failures) = client.max_retries
  /\ client.failures # << >> =>
       /\ client.returned.error = client.failures[Len(client.failures)]
       /\ client.error_count = client.errorsAtCall + 1

\* C29: a call of HTTPClient.request makes at most max_retries attempts; the
\* attempt that gets a response ends the call, which returns that response;
\* when every attempt raises a request exception the call returns a response
\* with status_code 0, empty headers and body and the last failure as error,
\* and error_count has grown by exactly one.  (A client of max_retries 0 makes
\* no attempt: its failure response has no error and counts none.)
C29_RequestTerminates ==
  /\ [](client.sent <= client.max_retries)
  /\ [](RequestReturned => ReturnedSuccess \/ ReturnedFailure)
  /\ [][client'.request_count > client.request_count =>
          client'.at = "idle" /\ client'.returned.status_code \in Statuses]_vars
  /\ [][client.at = "loop" /\ client'.at = "loop" =>
          client'.sent = client.sent + 1 /\ client'.attempt = client.attempt + 1]_vars

\* A call returned the failure response after three failed attempts, the last
\* failure differing from the first, on a client that had already counted an
\* error.
C29_Witness ==
  /\ RequestReturned
  /\ client.max_retries = 3
  /\ client.returned.status_code = 0
  /\ client.failures = <<RequestErrors_First, RequestErrors_First, RequestErrors_Last>>
  /\ client.returned.error = RequestErrors_Last
  /\ client.errorsAtCall = 1
  /\ client.error_count = 2

\* ------------------------------------------------------------------ C30
\* C30: between calls of request, get_stats reports errors no greater than
\* total_requests and a success_rate between 0 and 100.
C30_StatsInRange ==
  client.at = "idle" =>
    /\ get_stats(client).errors <= get_stats(client).total_requests
    /\ get_stats(client).success_rate.num >= 0
    /\ get_stats(client).success_rate.num <= 100 * get_stats(client).success_rate.den

====
